---- MODULE Spec2Model ----
(***************************************************************************)
(* A model of the publish pipeline of reup-tool: step normalization,       *)
(* discovery and intake (autobot.py), the per-video pipeline, the          *)
(* per-channel handoff signal and the upload attempts.                     *)
(***************************************************************************)
EXTENDS Naturals, Sequences, FiniteSets

VARIABLES
    nPhase,     \* step normalization: "input", "once" (applied), "twice" (re-applied)
    nIn,        \* the pipeline_steps argument
    nOut,       \* autobot._sanitize_pipeline_steps(nIn)
    nCm,        \* ConfigManager._sanitize_pipeline_steps(nIn)
    nTwice,     \* autobot._sanitize_pipeline_steps applied to nOut
    host,       \* the process: "daemon" (autobot.main) or "gui" (the desktop UI)
    ALL_CONFIGS,            \* channel -> its configuration
    last_videoid_file,      \* channel -> content of log/<channel>: {} (no file) or {id}
    channel_events,         \* channel -> "absent", "clear" or "set"
    is_rendered,            \* channel -> "unset", "True" or "False"
    apikey_error_channels,  \* channels suspended for discovery
    processed_videos,       \* PubSubHubbubServer.processed_videos
    latest,     \* channel -> number of videos published so far (the latest one's id)
    run,        \* thread slot -> the thread running process_video_pipeline or a manual upload
    worker,     \* channel -> its ChannelPipelineWorker (gui)
    intake,     \* channel -> video -> admissions since the last download failure of it
    announced,  \* <<channel, video, path>>: the "new video" notifications sent
    chunks,     \* chunk transfer: part number -> its upload_chunk_fixed call
    transfer,   \* chunk transfer: the API attempt around the chunk uploads
    FAIL_KEY_LIST,  \* key rotation: autobot.FAIL_KEY_LIST
    scan,           \* key rotation: channel -> its check_new_video call
    lateRequests,   \* key rotation: keys requested in sequence mode while in FAIL_KEY_LIST
    keyAdds,        \* key rotation: key -> times FAIL_KEY_LIST.add was called with it
    suspendNotes,   \* key rotation: channel -> suspension notifications sent
    files,          \* video -> its files under downloads/ and processed/
    renderJob,      \* render decision: duration, method and the chosen strategy
    splitJob,       \* upload split: file size, tier and the chunk sizes
    cpw             \* a ChannelPipelineWorker thread on its own: run() step by step

normVars == <<nPhase, nIn, nOut, nCm, nTwice>>

mainVars == <<host, ALL_CONFIGS, last_videoid_file, channel_events, is_rendered,
              apikey_error_channels, processed_videos, latest, run, worker, intake,
              announced, files>>

chunkVars == <<chunks, transfer>>

keyVars == <<FAIL_KEY_LIST, scan, lateRequests, keyAdds, suspendNotes>>

keyVars_but_scan == <<FAIL_KEY_LIST, lateRequests, keyAdds, suspendNotes>>

pureVars == <<renderJob, splitJob, cpw>>

\* What no action of the process changes: the normalization's variables, the
\* host and the configuration; the variables of the chunk transfer and of the
\* key rotation, which have specifications of their own.
static == <<nPhase, nIn, nOut, nCm, nTwice, host, ALL_CONFIGS, chunks, transfer,
            FAIL_KEY_LIST, scan, lateRequests, keyAdds, suspendNotes,
            renderJob, splitJob, cpw>>

vars == <<nPhase, nIn, nOut, nCm, nTwice, host, ALL_CONFIGS, last_videoid_file,
          channel_events, is_rendered, apikey_error_channels, processed_videos,
          latest, run, worker, intake, announced, files, chunks, transfer,
          FAIL_KEY_LIST, scan, lateRequests, keyAdds, suspendNotes,
          renderJob, splitJob, cpw>>

(***************************************************************************)
(* Step normalization.                                                     *)
(***************************************************************************)

StepKeys == {"scan", "download", "render", "upload"}

\* Python values a configuration file can hold under a step key.
PyValues == {"True", "False", "0", "1", "None", "text"}

\* bool(v)
PyBool(v) == v \in {"True", "1", "text"}

\* The argument of _sanitize_pipeline_steps: a dict holding any subset of the
\* keys, or something that is no dict (None, a list, ...).
StepInputs ==
    {[isDict |-> TRUE, map |-> m] :
        m \in UNION {[S -> PyValues] : S \in SUBSET StepKeys}}
    \cup {[isDict |-> FALSE, map |-> <<>>]}

default_pipeline_steps == [k \in StepKeys |-> TRUE]

\* A returned step set handed back as an argument (a dict of Python bools).
AsStepInput(d) ==
    [isDict |-> TRUE, map |-> [k \in StepKeys |-> IF d[k] THEN "True" ELSE "False"]]

\* The merge of the argument into the defaults (autobot.py lines 122-126).
MergeSteps(inp) ==
    IF inp.isDict
    THEN [k \in StepKeys |->
            IF k \in DOMAIN inp.map THEN PyBool(inp.map[k])
            ELSE default_pipeline_steps[k]]
    ELSE default_pipeline_steps

\* A plausible slip: the dependency rules are not applied after the merge.
sanitize_merge_only(inp) == MergeSteps(inp)

\* A plausible slip: the third rule assigns True instead of False.
sanitize_rule3_true(inp) ==
    LET d1 == MergeSteps(inp)
        d2 == IF d1["upload"]
              THEN [d1 EXCEPT !["render"] = TRUE, !["download"] = TRUE] ELSE d1
        d3 == IF d2["render"] /\ ~d2["download"]
              THEN [d2 EXCEPT !["download"] = TRUE] ELSE d2
        d4 == IF ~d3["render"] THEN [d3 EXCEPT !["upload"] = TRUE] ELSE d3
        d5 == IF ~d4["download"]
              THEN [d4 EXCEPT !["render"] = FALSE, !["upload"] = FALSE] ELSE d4
    IN  d5

\* A plausible slip: a key missing from the argument counts as False.
sanitize_missing_false(inp) ==
    LET d1 == IF inp.isDict
              THEN [k \in StepKeys |->
                      k \in DOMAIN inp.map /\ PyBool(inp.map[k])]
              ELSE default_pipeline_steps
        d2 == IF d1["upload"]
              THEN [d1 EXCEPT !["render"] = TRUE, !["download"] = TRUE] ELSE d1
        d3 == IF d2["render"] /\ ~d2["download"]
              THEN [d2 EXCEPT !["download"] = TRUE] ELSE d2
        d4 == IF ~d3["render"] THEN [d3 EXCEPT !["upload"] = FALSE] ELSE d3
        d5 == IF ~d4["download"]
              THEN [d4 EXCEPT !["render"] = FALSE, !["upload"] = FALSE] ELSE d4
    IN  d5

sanitize_pipeline_steps(inp) ==
    LET d1 == MergeSteps(inp)
        d2 == IF d1["upload"]
              THEN [d1 EXCEPT !["render"] = TRUE, !["download"] = TRUE] ELSE d1
        d3 == IF d2["render"] /\ ~d2["download"]
              THEN [d2 EXCEPT !["download"] = TRUE] ELSE d2
        d4 == IF ~d3["render"] THEN [d3 EXCEPT !["upload"] = FALSE] ELSE d3
        d5 == IF ~d4["download"]
              THEN [d4 EXCEPT !["render"] = FALSE, !["upload"] = FALSE] ELSE d4
    IN  d5

\* gui_main.ConfigManager._sanitize_pipeline_steps: the same text, on the
\* ConfigManager's own defaults.
ConfigManager_sanitize_pipeline_steps(inp) ==
    LET d1 == MergeSteps(inp)
        d2 == IF d1["upload"]
              THEN [d1 EXCEPT !["render"] = TRUE, !["download"] = TRUE] ELSE d1
        d3 == IF d2["render"] /\ ~d2["download"]
              THEN [d2 EXCEPT !["download"] = TRUE] ELSE d2
        d4 == IF ~d3["render"] THEN [d3 EXCEPT !["upload"] = FALSE] ELSE d3
        d5 == IF ~d4["download"]
              THEN [d4 EXCEPT !["render"] = FALSE, !["upload"] = FALSE] ELSE d4
    IN  d5

(***************************************************************************)
(* The process state: configuration, the marker files, the handoff         *)
(* registry, the threads.                                                  *)
(***************************************************************************)

\* Bounds of the model.
MaxRuns == 2        \* threads alive at once (pipeline runs and manual uploads)
MaxVideos == 1      \* videos a channel publishes

Channels == {"UC1"}
Runs == 1..MaxRuns
VideoIds == 1..MaxVideos

\* The title a manual upload passes as video_id (gui_main.py line 1623): no
\* id of a discovered video.
ManualTitle == MaxVideos + 1

\* pipeline_steps values of the channel configurations explored.
StepChoices ==
    { [isDict |-> FALSE, map |-> <<>>],
      [isDict |-> TRUE, map |-> [k \in {"scan", "upload"} |-> "False"]],
      [isDict |-> TRUE, map |-> [k \in {"upload"} |-> "False"]],
      [isDict |-> TRUE, map |-> [k \in {"render", "upload"} |-> "False"]],
      [isDict |-> TRUE, map |-> [k \in {"download", "render", "upload"} |-> "False"]] }

ChannelConfigs ==
    [pipeline_steps : StepChoices,
     upload_method : {"api", "browser"},
     detect_video : {"api", "websub", "both"}]

\* get_channel_pipeline_steps
get_channel_pipeline_steps(c) ==
    sanitize_pipeline_steps(ALL_CONFIGS[c].pipeline_steps)

\* What the signing helper gives: nothing, text that does not parse, a
\* signature.
Signatures == {"none", "bad", "good"}

\* The requests of one API upload attempt, in the order of the code.
ApiOrder == <<"auth", "apply", "transfer", "finish", "commit", "head", "publish">>

IdleRun ==
    [pc |-> "idle",         \* where the thread stands
     kind |-> "none",       \* "pipeline" or "manual"
     ch |-> "UC1", vid |-> 0,
     owned |-> FALSE,       \* called by the channel's ChannelPipelineWorker
     result |-> "none",     \* how process_video_pipeline ends
     noted |-> FALSE,       \* a failure notification was sent for the video
     upres |-> "none",      \* how upload_to_tiktok ends: "True", "False", "raise"
     waitRes |-> "none",    \* how the handoff wait ended
     orphan |-> FALSE,      \* blocked on an Event that left the registry
     sig |-> "none",        \* the pre-generated signature: "none", "bad", "good"
     upFile |-> "none",     \* the file handed to the upload: "processed", "download"
     reqs |-> <<>>,         \* the API attempt's requests: <<[ph, ok], ...>>
     evCreated |-> FALSE,   \* TikTokUploadWorker.run: event_created
     prevRender |-> "unset",\* TikTokUploadWorker.run: previous_render
     rendered |-> FALSE,    \* render_needed and render_result (line 1288)
     alone |-> TRUE]        \* no other run used the channel during this run

Active(r) == run[r].pc # "idle"

FreeRuns == {r \in Runs : ~Active(r)}

\* The slot a new thread takes.
NewRun == CHOOSE r \in FreeRuns : \A q \in FreeRuns : r <= q

\* The steps process_video_pipeline works with (autobot.py line 1217): the
\* worker passes the steps it normalized, the daemon's threads pass None.
RunSteps(r) ==
    IF run[r].owned
    THEN sanitize_pipeline_steps(AsStepInput(get_channel_pipeline_steps(run[r].ch)))
    ELSE get_channel_pipeline_steps(run[r].ch)

\* cancelled() (autobot.py lines 1227-1228): only the worker passes a stop_event.
cancelled(r) == run[r].owned /\ worker[run[r].ch].stop

\* Event.set(): the threads blocked in wait() on the channel's current Event
\* return True.
Woken(rr, c) ==
    [q \in Runs |->
        IF rr[q].ch = c /\ rr[q].pc \in {"a_blocked", "b_blocked"} /\ ~rr[q].orphan
        THEN [rr[q] EXCEPT !.pc = IF @ = "a_blocked" THEN "a_requests" ELSE "b_upload",
                           !.waitRes = "signalled"]
        ELSE rr[q]]

\* A registry entry is removed: the threads blocked on its Event keep waiting
\* on an object nobody can set any more.
Orphaned(rr, c) ==
    [q \in Runs |->
        IF rr[q].ch = c /\ rr[q].pc \in {"a_blocked", "b_blocked"}
        THEN [rr[q] EXCEPT !.orphan = TRUE]
        ELSE rr[q]]

\* A thread starts on channel c: the runs already on the channel are no
\* longer alone on it.
Joined(rr, c) ==
    [q \in Runs |->
        IF rr[q].pc # "idle" /\ rr[q].ch = c
        THEN [rr[q] EXCEPT !.alone = FALSE]
        ELSE rr[q]]

OthersOn(c) == {q \in Runs : Active(q) /\ run[q].ch = c}

\* Thread(target=process_video_pipeline, args=(c, video)).start(), or the
\* worker's call of process_video_pipeline: video v is admitted, after a
\* discovery event of the poll (path "api") or the push (path "websub"),
\* which also sends the "new video from <path>" notification (autobot.py
\* lines 1497-1506 and 291-298), or for the URL the user gave (path "url").
Admit(c, v, byWorker, path) ==
    /\ FreeRuns # {}
    /\ run' = [Joined(run, c) EXCEPT ![NewRun] =
                  [IdleRun EXCEPT !.pc = "p_start", !.kind = "pipeline", !.ch = c,
                                  !.vid = v, !.owned = byWorker,
                                  !.alone = (OthersOn(c) = {})]]
    /\ intake' = IF path # "url"
                 THEN [intake EXCEPT ![c][v] = IF @ < 2 THEN @ + 1 ELSE @]
                 ELSE intake
    /\ announced' = IF path # "url" THEN announced \cup {<<c, v, path>>} ELSE announced

(***************************************************************************)
(* Discovery: check_new_video, the scheduler job, the webhook.             *)
(***************************************************************************)

\* What the fetch of the latest activity gives: an exception (every key
\* failed, the query failed), no item, an item that is no upload, or the
\* latest video, published within is_new_second or longer ago.
FetchOutcomes == {"error", "empty", "not_upload", "fresh", "old"}

\* check_new_video(c) under fetch outcome o: the video id returned, 0 for None.
check_new_video(c, o) ==
    IF c \in apikey_error_channels THEN 0
    ELSE IF o \in {"error", "empty", "not_upload", "old"} THEN 0
    ELSE IF latest[c] = 0 THEN 0
    ELSE IF last_videoid_file[c] = {latest[c]} THEN 0
    ELSE latest[c]

\* The channels check_new_video leaves suspended (autobot.py lines 1515-1516).
check_new_video_suspends(c, o) ==
    IF c \notin apikey_error_channels /\ o = "error"
    THEN apikey_error_channels \cup {c}
    ELSE apikey_error_channels

\* The source platform publishes the channel's next video.
Publish(c) ==
    /\ latest[c] < MaxVideos
    /\ latest' = [latest EXCEPT ![c] = @ + 1]
    /\ UNCHANGED <<static, files, last_videoid_file, channel_events, is_rendered,
                   apikey_error_channels, processed_videos, run, worker, intake, announced>>

\* main.check_channel_video: the scheduler's job of a polled channel.
check_channel_video(c, o) ==
    /\ host = "daemon"
    /\ ALL_CONFIGS[c].detect_video \in {"api", "both"}
    /\ apikey_error_channels' = check_new_video_suspends(c, o)
    /\ IF check_new_video(c, o) # 0
       THEN Admit(c, check_new_video(c, o), FALSE, "api")
       ELSE UNCHANGED <<run, intake, announced>>
    /\ UNCHANGED <<static, files, last_videoid_file, channel_events, is_rendered,
                   processed_videos, latest, worker>>

\* A plausible slip: the push path admits whatever the receiver passes on.
handle_new_video_admits_all(c, v) == TRUE

\* handle_new_video: the marker check of the push path.
handle_new_video_admits(c, v) == last_videoid_file[c] # {v}

\* `if video['id'] not in self.processed_videos` (pubsubhubbub_server.py
\* line 154)
webhook_passes(c, v) == <<c, v>> \notin processed_videos

\* PubSubHubbubServer.handle_webhook with a notification for video v of c,
\* and the callback handle_new_video it calls for an id it has not seen.
handle_webhook(c, v) ==
    /\ host = "daemon"
    /\ ALL_CONFIGS[c].detect_video \in {"websub", "both"}
    /\ v \in 1..latest[c]
    /\ webhook_passes(c, v)
    /\ processed_videos' = processed_videos \cup {<<c, v>>}
    /\ IF handle_new_video_admits(c, v)
       THEN Admit(c, v, FALSE, "websub")
       ELSE UNCHANGED <<run, intake, announced>>
    /\ UNCHANGED <<static, files, last_videoid_file, channel_events, is_rendered,
                   apikey_error_channels, latest, worker>>

(***************************************************************************)
(* process_video_pipeline.                                                 *)
(***************************************************************************)

\* The worker after the process_video_pipeline call it made ended with
\* `result`: SystemExit ends the worker's thread, an exception ends run()
\* through its handler, a return goes on with the loop.
WorkerAfterRun(r, result) ==
    IF run[r].owned
    THEN [worker EXCEPT ![run[r].ch].pc =
            IF result = "exit" THEN "dead"
            ELSE IF result = "raised" \/ worker[run[r].ch].url # 0 THEN "finished"
            ELSE "wait"]
    ELSE worker

\* The files of a video: downloads/<title>.mp4, processed/<title>.mp4, and
\* whether the last finally clause run for it printed a cleanup error.
NoFiles == [download |-> FALSE, processed |-> FALSE, cleanup_error |-> FALSE]

\* download_video (lines 377-420): a download that succeeds leaves the
\* file, overwriting one that was there.
download_output(f, wanted, ok) ==
    IF wanted /\ ok THEN [f EXCEPT !.download = TRUE] ELSE f

\* render_video_ffmpeg: what a render that ended with `res` can leave at
\* output_path: nothing new when no ffmpeg ran, the output when it
\* succeeded, the output or nothing when ffmpeg failed.
render_output(f, wanted, res) ==
    IF ~wanted \/ res \in {"None", "exit"} THEN {f}
    ELSE IF res = "True" THEN {[f EXCEPT !.processed = TRUE]}
    ELSE {f, [f EXCEPT !.processed = TRUE]}

\* A plausible slip: the finally clause removes the download as well (the
\* two lines commented out at 1354-1355).
cleanup_both(f, unlinked) ==
    IF unlinked THEN NoFiles
    ELSE [f EXCEPT !.cleanup_error = f.processed \/ f.download]

\* The finally clause (lines 1352-1359): processed_path is removed if it
\* exists; an exception of the removal is printed and swallowed.
cleanup(f, unlinked) ==
    IF f.processed /\ ~unlinked THEN [f EXCEPT !.cleanup_error = TRUE]
    ELSE [f EXCEPT !.processed = FALSE, !.cleanup_error = FALSE]

\* A plausible slip: the marker is not written before the download.
PipelineStart_no_write(r) ==
    /\ run[r].pc = "p_start"
    /\ IF ~(RunSteps(r)["download"] \/ RunSteps(r)["render"] \/ RunSteps(r)["upload"])
       THEN /\ run' = [run EXCEPT ![r] = IdleRun]
            /\ worker' = WorkerAfterRun(r, "skipped")
       ELSE /\ run' = [run EXCEPT ![r].pc = "p_download"]
            /\ UNCHANGED worker
    /\ UNCHANGED <<static, files, last_videoid_file, channel_events, is_rendered,
                   apikey_error_channels, processed_videos, latest, intake, announced>>

\* process_video_pipeline, lines 1212-1243: the steps, the early return when
\* download, render and upload are all disabled, the marker write.
PipelineStart(r) ==
    /\ run[r].pc = "p_start"
    /\ IF ~(RunSteps(r)["download"] \/ RunSteps(r)["render"] \/ RunSteps(r)["upload"])
       THEN /\ run' = [run EXCEPT ![r] = IdleRun]
            /\ worker' = WorkerAfterRun(r, "skipped")
            /\ UNCHANGED last_videoid_file
       ELSE /\ last_videoid_file' = [last_videoid_file EXCEPT ![run[r].ch] = {run[r].vid}]
            /\ run' = [run EXCEPT ![r].pc = "p_download"]
            /\ UNCHANGED worker
    /\ UNCHANGED <<static, files, channel_events, is_rendered,
                   apikey_error_channels, processed_videos, latest, intake, announced>>

\* A plausible slip: a failed download leaves the marker in place.
PipelineDownload_keeps_marker(r, ok) ==
    /\ run[r].pc = "p_download"
    /\ IF RunSteps(r)["download"] /\ ~ok
       THEN /\ intake' = [intake EXCEPT ![run[r].ch][run[r].vid] = 0]
            /\ run' = [run EXCEPT ![r].pc = "p_finally", ![r].result = "download_failed",
                                  ![r].noted = TRUE]
       ELSE /\ UNCHANGED intake
            /\ IF cancelled(r)
               THEN run' = [run EXCEPT ![r].pc = "p_finally", ![r].result = "cancelled"]
               ELSE run' = [run EXCEPT ![r].pc = "p_render"]
    /\ files' = [files EXCEPT ![run[r].vid] =
                     download_output(@, RunSteps(r)["download"], ok)]
    /\ UNCHANGED <<static, last_videoid_file, channel_events, is_rendered,
                   apikey_error_channels, processed_videos, latest, worker, announced>>

\* Lines 1250-1268: the download stage (ok: download_video's result), the
\* notification and the marker's removal when it fails, the cancellation
\* check after it.
PipelineDownload(r, ok) ==
    /\ run[r].pc = "p_download"
    /\ IF RunSteps(r)["download"] /\ ~ok
       THEN /\ last_videoid_file' = [last_videoid_file EXCEPT ![run[r].ch] = {}]
            /\ intake' = [intake EXCEPT ![run[r].ch][run[r].vid] = 0]
            /\ run' = [run EXCEPT ![r].pc = "p_finally", ![r].result = "download_failed",
                                  ![r].noted = TRUE]
       ELSE /\ UNCHANGED <<last_videoid_file, intake>>
            /\ IF cancelled(r)
               THEN run' = [run EXCEPT ![r].pc = "p_finally", ![r].result = "cancelled"]
               ELSE run' = [run EXCEPT ![r].pc = "p_render"]
    /\ files' = [files EXCEPT ![run[r].vid] =
                     download_output(@, RunSteps(r)["download"], ok)]
    /\ UNCHANGED <<static, channel_events, is_rendered,
                   apikey_error_channels, processed_videos, latest, worker, announced>>

\* What render_video_ffmpeg does: returns True (re-encoded), None
\* (passthrough) or False (ffmpeg failed), or get_video_duration ends the
\* thread with sys.exit(1).
RenderOutcomes == {"True", "None", "False", "exit"}

\* A plausible slip: the cancellation flag is not looked at before the upload.
PipelineRender_no_check(r, res) ==
    /\ run[r].pc = "p_render"
    /\ IF RunSteps(r)["render"] /\ res = "exit"
       THEN /\ run' = [run EXCEPT ![r].pc = "p_finally", ![r].result = "exit"]
            /\ UNCHANGED is_rendered
       ELSE IF RunSteps(r)["render"] /\ res = "False"
       THEN /\ run' = [run EXCEPT ![r].pc = "p_finally", ![r].result = "render_failed",
                                  ![r].noted = TRUE]
            /\ UNCHANGED is_rendered
       ELSE /\ is_rendered' = [is_rendered EXCEPT ![run[r].ch] =
                    IF RunSteps(r)["render"] /\ res = "True" THEN "True" ELSE "False"]
            /\ LET own == [run EXCEPT ![r].rendered =
                                  RunSteps(r)["render"] /\ res = "True"]
               IN  IF RunSteps(r)["upload"]
                   THEN run' = [own EXCEPT ![r].pc = "p_signal"]
                   ELSE run' = [own EXCEPT ![r].pc = "p_finally",
                                           ![r].result = "ok"]
    /\ \E f \in render_output(files[run[r].vid], RunSteps(r)["render"], res) :
          files' = [files EXCEPT ![run[r].vid] = f]
    /\ UNCHANGED <<static, last_videoid_file, channel_events,
                   apikey_error_channels, processed_videos, latest, worker, intake, announced>>

\* Lines 1270-1297: the render stage, is_rendered, the cancellation check
\* before the upload.
PipelineRender(r, res) ==
    /\ run[r].pc = "p_render"
    /\ IF RunSteps(r)["render"] /\ res = "exit"
       THEN /\ run' = [run EXCEPT ![r].pc = "p_finally", ![r].result = "exit"]
            /\ UNCHANGED is_rendered
       ELSE IF RunSteps(r)["render"] /\ res = "False"
       THEN /\ run' = [run EXCEPT ![r].pc = "p_finally", ![r].result = "render_failed",
                                  ![r].noted = TRUE]
            /\ UNCHANGED is_rendered
       ELSE /\ is_rendered' = [is_rendered EXCEPT ![run[r].ch] =
                    IF RunSteps(r)["render"] /\ res = "True" THEN "True" ELSE "False"]
            /\ LET own == [run EXCEPT ![r].rendered =
                                  RunSteps(r)["render"] /\ res = "True"]
               IN  IF cancelled(r)
                   THEN run' = [own EXCEPT ![r].pc = "p_finally",
                                           ![r].result = "cancelled"]
                   ELSE IF RunSteps(r)["upload"]
                   THEN run' = [own EXCEPT ![r].pc = "p_signal"]
                   ELSE run' = [own EXCEPT ![r].pc = "p_finally",
                                           ![r].result = "ok"]
    /\ \E f \in render_output(files[run[r].vid], RunSteps(r)["render"], res) :
          files' = [files EXCEPT ![run[r].vid] = f]
    /\ UNCHANGED <<static, last_videoid_file, channel_events,
                   apikey_error_channels, processed_videos, latest, worker, intake, announced>>

\* upload_to_tiktok: the strategy the channel configures.
upload_to_tiktok(c) ==
    IF ALL_CONFIGS[c].upload_method = "api" THEN "a_pre" ELSE "b_enter"

\* Lines 1299-1310: under event_lock the channel's Event is created if
\* absent and set; then upload_to_tiktok is called.
PipelineSignal(r) ==
    /\ run[r].pc = "p_signal"
    /\ channel_events' = [channel_events EXCEPT ![run[r].ch] = "set"]
    /\ run' = [Woken(run, run[r].ch) EXCEPT ![r].pc = upload_to_tiktok(run[r].ch)]
    /\ UNCHANGED <<static, files, last_videoid_file, is_rendered,
                   apikey_error_channels, processed_videos, latest, worker, intake, announced>>

\* Lines 1311-1350: the upload's result decides the run's; a falsy result is
\* notified (line 1314), an exception passes through.
PipelineAfterUpload(r) ==
    /\ run[r].pc = "p_after"
    /\ run' = [run EXCEPT ![r].pc = "p_finally",
                          ![r].result = IF run[r].upres = "True" THEN "ok"
                                        ELSE IF run[r].upres = "False" THEN "upload_failed"
                                        ELSE "raised",
                          ![r].noted = (run[r].upres = "False")]
    /\ UNCHANGED <<static, files, last_videoid_file, channel_events, is_rendered,
                   apikey_error_channels, processed_videos, latest, worker, intake, announced>>

\* Lines 1352-1359: the cleanup; the call returns (or the exception goes on).
PipelineFinally(r, unlinked) ==
    /\ run[r].pc = "p_finally"
    /\ unlinked \/ files[run[r].vid].processed
    /\ files' = [files EXCEPT ![run[r].vid] = cleanup(@, unlinked)]
    /\ run' = [run EXCEPT ![r] = IdleRun]
    /\ worker' = WorkerAfterRun(r, run[r].result)
    /\ UNCHANGED <<static, last_videoid_file, channel_events, is_rendered,
                   apikey_error_channels, processed_videos, latest, intake, announced>>

(***************************************************************************)
(* The upload attempts.                                                    *)
(***************************************************************************)

\* upload_to_tiktok returns to its caller: the attempt's locals are gone.
UploadReturn(r) ==
    [run[r] EXCEPT !.pc = IF run[r].kind = "pipeline" THEN "p_after" ELSE "m_finally",
                   !.waitRes = "none", !.orphan = FALSE, !.sig = "none",
                   !.upFile = "none", !.reqs = <<>>]

\* The attempt ends with `res` ("True", "False" or "raise"): on to its
\* finally clause.
ApiEnds(r, res) == [run[r] EXCEPT !.pc = "a_finally", !.upres = res]

BrowserEnds(r, res) == [run[r] EXCEPT !.pc = "b_finally", !.upres = res]

RECURSIVE IssueFrom_all(_, _, _)
\* A plausible slip: a failed request does not end the attempt.
IssueFrom_all(i, last, outs) ==
    IF i > last THEN <<>>
    ELSE <<[ph |-> ApiOrder[i], ok |-> outs[i]]>> \o IssueFrom_all(i + 1, last, outs)

RECURSIVE IssueFrom(_, _, _)
\* The requests of phases i..last as the code issues them under the outcomes
\* outs (phase -> the request succeeds): each phase only after the one before
\* succeeded, nothing after a failure.
IssueFrom(i, last, outs) ==
    IF i > last THEN <<>>
    ELSE <<[ph |-> ApiOrder[i], ok |-> outs[i]]>>
         \o (IF outs[i] THEN IssueFrom(i + 1, last, outs) ELSE <<>>)

uploadFrame == <<static, files, last_videoid_file, channel_events, is_rendered,
                 apikey_error_channels, processed_videos, latest, worker, intake, announced>>

\* upload_to_tiktok_api, lines 709-819: the session, the cookies, the
\* pre-generated signature (ok, or an exception, caught at line 984).
ApiPrepare(r, ok) ==
    /\ run[r].pc = "a_pre"
    /\ run' = [run EXCEPT ![r] = IF ok THEN [run[r] EXCEPT !.pc = "a_wait"]
                                 ELSE ApiEnds(r, "False")]
    /\ UNCHANGED uploadFrame

\* Lines 821-825: the wait on the channel's Event.
ApiWait(r) ==
    /\ run[r].pc = "a_wait"
    /\ run' = [run EXCEPT ![r] =
          IF channel_events[run[r].ch] = "absent"
          THEN [ApiEnds(r, "False") EXCEPT !.waitRes = "KeyError"]
          ELSE IF channel_events[run[r].ch] = "set"
          THEN [run[r] EXCEPT !.pc = "a_requests", !.waitRes = "immediate"]
          ELSE [run[r] EXCEPT !.pc = "a_blocked"]]
    /\ UNCHANGED uploadFrame

\* A plausible slip: the result of the wait is not looked at.
ApiWaitTimeout_proceeds(r) ==
    /\ run[r].pc = "a_blocked"
    /\ run' = [run EXCEPT ![r] = [run[r] EXCEPT !.pc = "a_requests", !.waitRes = "timeout"]]
    /\ UNCHANGED uploadFrame

\* The 80 s of the wait pass without the Event being set: return False.
ApiWaitTimeout(r) ==
    /\ run[r].pc = "a_blocked"
    /\ run' = [run EXCEPT ![r] = [ApiEnds(r, "False") EXCEPT !.waitRes = "timeout"]]
    /\ UNCHANGED uploadFrame

\* Lines 826-982 and upload_to_tiktok_optimized: the file is chosen (a
\* KeyError when is_rendered has no entry), then auth, apply, the chunk
\* transfers, finish, commit and HEAD are requested; the signature (sig: what
\* line 817 gave, regen: what the one regeneration gives) is checked and the
\* publish request made.
ApiRequests(r, outs, sig, regen) ==
    /\ run[r].pc = "a_requests"
    /\ LET before == IssueFrom(1, Len(ApiOrder) - 1, outs)
           published == [ph |-> "publish", ok |-> outs[Len(ApiOrder)]]
           reached == Len(before) = Len(ApiOrder) - 1 /\ before[Len(before)].ok
           signatures == IF sig = "none" THEN regen ELSE sig
       IN  run' = [run EXCEPT ![r] =
              IF is_rendered[run[r].ch] = "unset"
              THEN ApiEnds(r, "False")
              ELSE [ApiEnds(r, IF reached /\ signatures = "good" /\ published.ok
                               THEN "True" ELSE "False")
                    EXCEPT !.upFile = IF is_rendered[run[r].ch] = "True"
                                      THEN "processed" ELSE "download",
                           !.sig = IF reached THEN signatures ELSE "none",
                           !.reqs = IF reached /\ signatures = "good"
                                    THEN Append(before, published) ELSE before]]
    /\ UNCHANGED uploadFrame

\* The Event's state after `channel_events[channel].clear()` under the lock,
\* when the channel has an entry.
ClearedEvent(c) == IF channel_events[c] = "absent" THEN "absent" ELSE "clear"

\* Lines 989-995: the API attempt's finally clause; the call returns.
ApiFinally(r) ==
    /\ run[r].pc = "a_finally"
    /\ channel_events' = [channel_events EXCEPT ![run[r].ch] = ClearedEvent(run[r].ch)]
    /\ run' = [run EXCEPT ![r] = UploadReturn(r)]
    /\ UNCHANGED <<static, files, last_videoid_file, is_rendered,
                   apikey_error_channels, processed_videos, latest, worker, intake, announced>>

\* upload_to_tiktok_browser, lines 1001-1010: the Playwright driver is
\* started (ok) and, inside the try, the Event is created if absent. When
\* the driver does not start the exception leaves the function before the
\* try statement: neither the except nor the finally clause runs.
BrowserEnter(r, ok) ==
    /\ run[r].pc = "b_enter"
    /\ IF ok
       THEN /\ channel_events' = [channel_events EXCEPT ![run[r].ch] =
                                     IF @ = "absent" THEN "clear" ELSE @]
            /\ run' = [run EXCEPT ![r].pc = "b_launch"]
       ELSE /\ run' = [run EXCEPT ![r] = [UploadReturn(r) EXCEPT !.upres = "raise"]]
            /\ UNCHANGED channel_events
    /\ UNCHANGED <<static, files, last_videoid_file, is_rendered,
                   apikey_error_channels, processed_videos, latest, worker, intake, announced>>

\* Lines 1011-1107: the browser is launched and the upload page opened (ok,
\* or an exception), then the wait on the channel's Event.
BrowserLaunch(r, ok) ==
    /\ run[r].pc = "b_launch"
    /\ run' = [run EXCEPT ![r] =
          IF ~ok THEN BrowserEnds(r, "raise")
          ELSE IF channel_events[run[r].ch] = "absent"
          THEN [BrowserEnds(r, "raise") EXCEPT !.waitRes = "KeyError"]
          ELSE IF channel_events[run[r].ch] = "set"
          THEN [run[r] EXCEPT !.pc = "b_upload", !.waitRes = "immediate"]
          ELSE [run[r] EXCEPT !.pc = "b_blocked"]]
    /\ UNCHANGED uploadFrame

BrowserWaitTimeout(r) ==
    /\ run[r].pc = "b_blocked"
    /\ run' = [run EXCEPT ![r] = [BrowserEnds(r, "False") EXCEPT !.waitRes = "timeout"]]
    /\ UNCHANGED uploadFrame

\* Lines 1111-1156: the file is chosen and posted (o: posted, the post button
\* never came, or an exception); a posted video's id is written to the marker.
BrowserUpload(r, o) ==
    /\ run[r].pc = "b_upload"
    /\ IF is_rendered[run[r].ch] = "unset"
       THEN /\ run' = [run EXCEPT ![r] = BrowserEnds(r, "raise")]
            /\ UNCHANGED last_videoid_file
       ELSE /\ run' = [run EXCEPT ![r] =
                  [BrowserEnds(r, IF o = "posted" THEN "True"
                                  ELSE IF o = "no_post" THEN "False" ELSE "raise")
                   EXCEPT !.upFile = IF is_rendered[run[r].ch] = "True"
                                     THEN "processed" ELSE "download"]]
            /\ last_videoid_file' =
                  IF o = "posted"
                  THEN [last_videoid_file EXCEPT ![run[r].ch] = {run[r].vid}]
                  ELSE last_videoid_file
    /\ UNCHANGED <<static, files, channel_events, is_rendered,
                   apikey_error_channels, processed_videos, latest, worker, intake, announced>>

\* Lines 1157-1166: the browser attempt's except and finally clauses; the
\* call returns or the exception goes on to the caller.
BrowserFinally(r) ==
    /\ run[r].pc = "b_finally"
    /\ channel_events' = [channel_events EXCEPT ![run[r].ch] = ClearedEvent(run[r].ch)]
    /\ run' = [run EXCEPT ![r] = UploadReturn(r)]
    /\ UNCHANGED <<static, files, last_videoid_file, is_rendered,
                   apikey_error_channels, processed_videos, latest, worker, intake, announced>>

(***************************************************************************)
(* The desktop UI: the channel workers and the manual upload.              *)
(***************************************************************************)

IdleWorker == [pc |-> "off", stop |-> FALSE, url |-> 0]

guiFrame == <<static, files, last_videoid_file, channel_events, is_rendered,
              apikey_error_channels, processed_videos, latest, run, intake, announced>>

\* ChannelsTab.start_channel_pipeline: refused while the channel has a worker;
\* a video URL (url, 0 for none) is asked for exactly when scan is disabled.
start_channel_pipeline(c, url) ==
    /\ host = "gui"
    /\ worker[c].pc = "off"
    /\ (url = 0) <=> get_channel_pipeline_steps(c)["scan"]
    /\ worker' = [worker EXCEPT ![c] = [IdleWorker EXCEPT !.pc = "begin", !.url = url]]
    /\ UNCHANGED guiFrame

\* ChannelsTab.stop_channel_pipeline -> ChannelPipelineWorker.request_stop
stop_channel_pipeline(c) ==
    /\ host = "gui"
    /\ worker[c].pc \in {"begin", "scan", "busy", "wait"}
    /\ ~worker[c].stop
    /\ worker' = [worker EXCEPT ![c].stop = TRUE]
    /\ UNCHANGED guiFrame

\* ChannelPipelineWorker.run, lines 55-114: with scan disabled the manual
\* video is processed (_process_video refuses once stop is requested) and
\* the worker finishes; else the scan loop starts.
WorkerBegin(c) ==
    /\ worker[c].pc = "begin"
    /\ IF worker[c].url = 0
       THEN /\ worker' = [worker EXCEPT ![c].pc = "scan"]
            /\ UNCHANGED <<run, intake, announced>>
       ELSE IF worker[c].stop
       THEN /\ worker' = [worker EXCEPT ![c].pc = "finished"]
            /\ UNCHANGED <<run, intake, announced>>
       ELSE /\ Admit(c, worker[c].url, TRUE, "url")
            /\ worker' = [worker EXCEPT ![c].pc = "busy"]
    /\ UNCHANGED <<static, files, last_videoid_file, channel_events, is_rendered,
                   apikey_error_channels, processed_videos, latest>>

\* Lines 116-142: the loop's test, check_new_video, and _process_video for
\* the video it returned.
WorkerScan(c, o) ==
    /\ worker[c].pc = "scan"
    /\ IF worker[c].stop
       THEN /\ worker' = [worker EXCEPT ![c].pc = "finished"]
            /\ UNCHANGED <<apikey_error_channels, run, intake, announced>>
       ELSE /\ apikey_error_channels' = check_new_video_suspends(c, o)
            /\ IF check_new_video(c, o) # 0
               THEN /\ Admit(c, check_new_video(c, o), TRUE, "api")
                    /\ worker' = [worker EXCEPT ![c].pc = "busy"]
               ELSE /\ worker' = [worker EXCEPT ![c].pc = "wait"]
                    /\ UNCHANGED <<run, intake, announced>>
    /\ UNCHANGED <<static, files, last_videoid_file, channel_events, is_rendered,
                   processed_videos, latest>>

\* Lines 144-150, _wait_with_stop: the wait ends at once when stop is
\* requested, else after scan_interval.
WorkerWait(c) ==
    /\ worker[c].pc = "wait"
    /\ worker' = [worker EXCEPT ![c].pc = IF worker[c].stop THEN "finished" ELSE "scan"]
    /\ UNCHANGED guiFrame

\* ChannelsTab.on_worker_finished: the worker leaves pipeline_workers.
on_worker_finished(c) ==
    /\ worker[c].pc = "finished"
    /\ worker' = [worker EXCEPT ![c] = IdleWorker]
    /\ UNCHANGED guiFrame

\* UploadTab.start_upload (gui_main.py lines 2719-2801): refused while an
\* upload worker is running; else a TikTokUploadWorker is started for a file
\* and channel c, with the channel's own upload method selected.
start_upload(c) ==
    /\ host = "gui"
    /\ \A q \in Runs : run[q].kind # "manual"
    /\ FreeRuns # {}
    /\ run' = [Joined(run, c) EXCEPT ![NewRun] =
                  [IdleRun EXCEPT !.pc = "m_start", !.kind = "manual", !.ch = c,
                                  !.vid = ManualTitle, !.alone = (OthersOn(c) = {})]]
    /\ UNCHANGED <<static, files, last_videoid_file, channel_events, is_rendered,
                   apikey_error_channels, processed_videos, latest, worker, intake, announced>>

\* TikTokUploadWorker.run, lines 1598-1626: the Event is created if absent and
\* set, is_rendered is forced, upload_to_tiktok is called.
ManualStart(r) ==
    /\ run[r].pc = "m_start"
    /\ channel_events' = [channel_events EXCEPT ![run[r].ch] = "set"]
    /\ is_rendered' = [is_rendered EXCEPT ![run[r].ch] = "True"]
    /\ run' = [Woken(run, run[r].ch) EXCEPT
                  ![r].pc = upload_to_tiktok(run[r].ch),
                  ![r].prevRender = is_rendered[run[r].ch],
                  ![r].evCreated = (channel_events[run[r].ch] = "absent")]
    /\ UNCHANGED <<static, files, last_videoid_file,
                   apikey_error_channels, processed_videos, latest, worker, intake, announced>>

\* TikTokUploadWorker.run, lines 1631-1643: is_rendered is restored and the
\* registry entry this worker created is removed.
ManualFinally(r) ==
    /\ run[r].pc = "m_finally"
    /\ is_rendered' = [is_rendered EXCEPT ![run[r].ch] = run[r].prevRender]
    /\ channel_events' = [channel_events EXCEPT ![run[r].ch] =
                             IF run[r].evCreated THEN "absent" ELSE @]
    /\ run' = [(IF run[r].evCreated THEN Orphaned(run, run[r].ch) ELSE run)
                  EXCEPT ![r] = IdleRun]
    /\ UNCHANGED <<static, files, last_videoid_file,
                   apikey_error_channels, processed_videos, latest, worker, intake, announced>>

(***************************************************************************)
(* The specification of the process.                                       *)
(***************************************************************************)

NormIdle ==
    /\ nPhase = "input"
    /\ nIn = [isDict |-> FALSE, map |-> <<>>]
    /\ nOut = default_pipeline_steps
    /\ nCm = default_pipeline_steps
    /\ nTwice = default_pipeline_steps

MainInit ==
    /\ host \in {"daemon", "gui"}
    /\ ALL_CONFIGS \in [Channels -> ChannelConfigs]
    /\ \A c \in Channels :
          /\ host = "gui" => ALL_CONFIGS[c].detect_video = "api"
          /\ host = "daemon" => "scan" \notin DOMAIN ALL_CONFIGS[c].pipeline_steps.map
          /\ ~get_channel_pipeline_steps(c)["upload"]
                => ALL_CONFIGS[c].upload_method = "browser"
    /\ last_videoid_file = [c \in Channels |-> {}]
    /\ channel_events = [c \in Channels |-> "absent"]
    /\ is_rendered = [c \in Channels |-> "unset"]
    /\ apikey_error_channels = {}
    /\ processed_videos = {}
    /\ latest = [c \in Channels |-> 0]
    /\ run = [r \in Runs |-> IdleRun]
    /\ worker = [c \in Channels |-> IdleWorker]
    /\ intake = [c \in Channels |-> [v \in VideoIds |-> 0]]
    /\ announced = {}
    /\ files = [v \in VideoIds |-> NoFiles]

\* No chunk transfer under way.
ChunkIdle ==
    /\ chunks = <<>>
    /\ transfer = [phase |-> "off", reqs |-> <<>>, result |-> "none"]

\* No key rotation under way.
KeyIdle ==
    /\ FAIL_KEY_LIST = {}
    /\ scan = <<>>
    /\ lateRequests = {}
    /\ keyAdds = <<>>
    /\ suspendNotes = <<>>

\* No render decision, no upload split and no worker thread on its own
\* under way.
PureIdle ==
    /\ renderJob = [phase |-> "off"]
    /\ splitJob = [phase |-> "off"]
    /\ cpw = [pc |-> "off"]

Init == NormIdle /\ MainInit /\ ChunkIdle /\ KeyIdle /\ PureIdle

Discovery ==
    \/ \E c \in Channels : Publish(c)
    \/ \E c \in Channels, o \in FetchOutcomes : check_channel_video(c, o)
    \/ \E c \in Channels, v \in VideoIds : handle_webhook(c, v)

Pipeline ==
    \E r \in Runs :
        \/ PipelineStart(r)
        \/ \E ok \in BOOLEAN : PipelineDownload(r, ok)
        \/ \E res \in RenderOutcomes : PipelineRender(r, res)
        \/ PipelineSignal(r)
        \/ PipelineAfterUpload(r)
        \/ \E unlinked \in BOOLEAN : PipelineFinally(r, unlinked)

ApiUpload ==
    \E r \in Runs :
        \/ \E ok \in BOOLEAN : ApiPrepare(r, ok)
        \/ ApiWait(r)
        \/ ApiWaitTimeout(r)
        \/ \E failing \in 0..Len(ApiOrder), sig \in Signatures :
              \E regen \in (IF sig = "none" THEN Signatures ELSE {"none"}) :
                 ApiRequests(r, [i \in 1..Len(ApiOrder) |-> i # failing], sig, regen)
        \/ ApiFinally(r)

BrowserUpload_ ==
    \E r \in Runs :
        \/ \E ok \in BOOLEAN : BrowserEnter(r, ok)
        \/ \E ok \in BOOLEAN : BrowserLaunch(r, ok)
        \/ BrowserWaitTimeout(r)
        \/ \E o \in {"posted", "no_post", "raise"} : BrowserUpload(r, o)
        \/ BrowserFinally(r)

Gui ==
    \/ \E c \in Channels, url \in 0..MaxVideos : start_channel_pipeline(c, url)
    \/ \E c \in Channels :
          \/ stop_channel_pipeline(c)
          \/ WorkerBegin(c)
          \/ \E o \in FetchOutcomes : WorkerScan(c, o)
          \/ WorkerWait(c)
          \/ on_worker_finished(c)
          \/ start_upload(c)
    \/ \E r \in Runs : ManualStart(r) \/ ManualFinally(r)

Next == Discovery \/ Pipeline \/ ApiUpload \/ BrowserUpload_ \/ Gui

Spec == Init /\ [][Next]_vars


(***************************************************************************)
(* The specification of the step normalization alone, over every argument. *)
(***************************************************************************)

NormInit ==
    /\ nPhase = "input"
    /\ nIn \in StepInputs
    /\ nOut = default_pipeline_steps
    /\ nCm = default_pipeline_steps
    /\ nTwice = default_pipeline_steps
    /\ ChunkIdle
    /\ KeyIdle
    /\ PureIdle
    /\ MainInit
    /\ host = "daemon"
    /\ \A c \in Channels :
          ALL_CONFIGS[c] = [pipeline_steps |-> [isDict |-> FALSE, map |-> <<>>],
                            upload_method |-> "browser", detect_video |-> "api"]

\* A caller normalizes the steps it read from the configuration.
NormApply ==
    /\ nPhase = "input"
    /\ nOut' = sanitize_pipeline_steps(nIn)
    /\ nCm' = ConfigManager_sanitize_pipeline_steps(nIn)
    /\ nPhase' = "once"
    /\ UNCHANGED <<nIn, nTwice, mainVars, chunkVars, pureVars, keyVars>>

\* The normalized steps are normalized again (process_video_pipeline does so
\* with the steps ChannelPipelineWorker.run already normalized).
NormReapply ==
    /\ nPhase = "once"
    /\ nTwice' = sanitize_pipeline_steps(AsStepInput(nOut))
    /\ nPhase' = "twice"
    /\ UNCHANGED <<nIn, nOut, nCm, mainVars, chunkVars, pureVars, keyVars>>

NormNext == NormApply \/ NormReapply

SpecNorm == NormInit /\ [][NormNext]_vars

(***************************************************************************)
(* The chunk transfer of an API attempt: upload_to_tiktok_optimized and    *)
(* upload_chunk_fixed, and the requests upload_to_tiktok_api makes after   *)
(* it.                                                                     *)
(***************************************************************************)

Min(a, b) == IF a < b THEN a ELSE b

MaxChunks == 3      \* parts the file is cut into

\* upload_chunk_fixed: max_retries
upload_chunk_max_retries == 3

\* A part handed to the executor: the POSTs made for it so far, the seconds
\* slept after each of them, and whether upload_chunk_fixed is still at it
\* ("queued"), returned True ("ok") or returned False ("failed").
QueuedChunk == [tries |-> 0, state |-> "queued", waits |-> <<>>]

\* The contents a chunk can have, and the ids uuid4 can give the upload.
ChunkData == {"A", "B"}

UploadIds == {"u1", "u2"}

\* crc32 of a chunk: equal contents give equal sums, these two differ.
crc32(d) == IF d = "A" THEN 355425447 ELSE 1255198513

\* upload_to_tiktok_optimized, lines 60-89: for the chunks in file order the
\* checksum is appended to crcs and the transfer request is prepared with
\* partNumber i + 1 (i from 0), the upload id and the checksum.
submit_chunks(data, upload_id) ==
    [phase |-> "chunks", reqs |-> <<>>, result |-> "none",
     data |-> data, upload_id |-> upload_id,
     crcs |-> [i \in DOMAIN data |-> crc32(data[i])],
     parts |-> [i \in DOMAIN data |->
                  [partNumber |-> (i - 1) + 1, uploadID |-> upload_id,
                   crc |-> crc32(data[i]), chunk |-> data[i]]],
     finish |-> [uploadID |-> "none", data |-> <<>>],
     signatures |-> "None", first_signature |-> "None", regens |-> 0,
     signed |-> <<>>]

\* A plausible slip: the parts of the finish body are numbered from 0.
finish_request_from_zero(upload_id, crcs) ==
    [uploadID |-> upload_id,
     data |-> [i \in DOMAIN crcs |-> <<i - 1, crcs[i]>>]]

\* autobot.py lines 842-847: the finish request, its body the list of
\* "{i + 1}:{crcs[i]}" for i from 0.
finish_request(upload_id, crcs) ==
    [uploadID |-> upload_id,
     data |-> [i \in DOMAIN crcs |-> <<(i - 1) + 1, crcs[i]>>]]

\* A plausible slip: the sleep is made after the last attempt as well.
chunk_backoff_always(attempt) == <<Min(2 ^ attempt, 10)>>

\* Lines 138-141: the sleep after the failed attempt number `attempt`
\* (counted from 0), none after the last.
chunk_backoff(attempt) ==
    IF attempt < upload_chunk_max_retries - 1
    THEN <<Min(2 ^ attempt, 10)>>
    ELSE <<>>

\* upload_chunk_fixed for part i makes one POST (ok: it succeeded): True at
\* once after a success, False after max_retries failures, else the next try.
upload_chunk_fixed(i, ok) ==
    /\ transfer.phase = "chunks"
    /\ i \in DOMAIN chunks
    /\ chunks[i].state = "queued"
    /\ chunks' = [chunks EXCEPT ![i] =
          [tries |-> @.tries + 1,
           state |-> IF ok THEN "ok"
                     ELSE IF @.tries + 1 < upload_chunk_max_retries THEN "queued"
                     ELSE "failed",
           waits |-> IF ok THEN @.waits ELSE @.waits \o chunk_backoff(@.tries)]]
    /\ UNCHANGED <<normVars, mainVars, keyVars, pureVars, transfer>>

\* A plausible slip: the transfer counts as failed only when no part went through.
transfer_fails_when_none_ok(cs) ==
    \A i \in DOMAIN cs : cs[i].state = "failed"

\* `if failed_chunks:` (tiktok.py line 108)
transfer_fails(cs) ==
    \E i \in DOMAIN cs : cs[i].state = "failed"

\* upload_to_tiktok_optimized, lines 91-114: every future has completed; with
\* a failed part it returns False, which upload_to_tiktok_api cannot unpack
\* (autobot.py lines 830-839): the TypeError ends the attempt in the handler
\* of line 984 with False.
CollectChunks ==
    /\ transfer.phase = "chunks"
    /\ \A i \in DOMAIN chunks : chunks[i].state # "queued"
    /\ transfer' = IF transfer_fails(chunks)
                   THEN [transfer EXCEPT !.phase = "ended", !.result = "False"]
                   ELSE [transfer EXCEPT !.phase = "follow"]
    /\ UNCHANGED <<normVars, mainVars, keyVars, pureVars, chunks>>

\* autobot.py lines 840-871: finish, commit and HEAD, each only after the
\* one before succeeded; a failed one ends the attempt with False.
FollowTransfer(outs) ==
    /\ transfer.phase = "follow"
    /\ LET before == IssueFrom(4, Len(ApiOrder) - 1, outs)
           reached == before[Len(before)].ph = "head" /\ before[Len(before)].ok
       IN  transfer' =
              [transfer EXCEPT
                 !.phase = IF reached THEN "publish" ELSE "ended",
                 !.finish = finish_request(transfer.upload_id, transfer.crcs),
                 !.reqs = before,
                 !.result = IF reached THEN "none" ELSE "False"]
    /\ UNCHANGED <<normVars, mainVars, keyVars, pureVars, chunks>>

\* What subprocess_jsvmp can hand back: None, an empty string, text that is
\* no JSON, JSON without "data", JSON whose "data" lacks a signature field,
\* a full signature.
SignerOutputs == {"None", "empty", "nonjson", "nodata", "nofield", "good"}

\* What the publish POST can come back with: a non-success response, a body
\* with a non-zero status_code, a body with status_code 0.
PublishResponses == {"http_error", "status_nonzero", "status_0"}

\* `if not signatures:` (line 920)
signature_missing(sig) == sig \in {"None", "empty"}

\* A plausible slip: a non-zero status_code lets the loop go round again.
publish_ends_unless_nonzero(resp) == resp # "status_nonzero"

\* Lines 957-969: every way through the loop body after the POST leaves the
\* loop, by return False or by break.
publish_ends(resp) == resp \in PublishResponses

\* One pass of the `while True` loop (lines 918-969): a missing signature is
\* generated again (regen: what the helper gives now); None, or text that
\* does not parse to the fields, ends the attempt with False before any
\* request; else the publish POST is made and its response decides.  An
\* input the pass does not read is held at one value.
PublishPass(regen, resp) ==
    /\ transfer.phase = "publish"
    /\ Len(transfer.reqs) < Len(ApiOrder)
    /\ LET missing == signature_missing(transfer.signatures)
           sig == IF missing THEN regen ELSE transfer.signatures
           request == [ph |-> "publish", ok |-> resp = "status_0"]
       IN  /\ missing \/ regen = "None"
           /\ sig = "good" \/ resp = "http_error"
           /\ transfer' =
                 IF sig # "good"
                 THEN [transfer EXCEPT !.phase = "ended", !.result = "False",
                          !.signatures = sig,
                          !.regens = IF missing THEN @ + 1 ELSE @]
                 ELSE [transfer EXCEPT
                          !.phase = IF publish_ends(resp) THEN "ended" ELSE "publish",
                          !.result = IF resp = "status_0" THEN "True"
                                     ELSE IF publish_ends(resp) THEN "False"
                                     ELSE "none",
                          !.signatures = sig,
                          !.regens = IF missing THEN @ + 1 ELSE @,
                          !.signed = Append(@, sig),
                          !.reqs = Append(@, request)]
    /\ UNCHANGED <<normVars, mainVars, keyVars, pureVars, chunks>>

\* One fixed configuration of the process, for the specifications that do
\* not run it.
MainIdle ==
    /\ MainInit
    /\ host = "daemon"
    /\ \A c \in Channels :
          ALL_CONFIGS[c] = [pipeline_steps |-> [isDict |-> FALSE, map |-> <<>>],
                            upload_method |-> "api", detect_video |-> "api"]

\* The attempt has come to the chunk transfer of a file of 0..MaxChunks parts.
ChunkInit ==
    /\ NormIdle
    /\ MainIdle
    /\ KeyIdle
    /\ PureIdle
    /\ \E n \in 0..MaxChunks, u \in UploadIds :
          \E data \in [1..n -> ChunkData] :
              /\ chunks = [i \in 1..n |-> QueuedChunk]
              /\ \E sig \in SignerOutputs :
                    transfer = [submit_chunks(data, u) EXCEPT
                                   !.signatures = sig, !.first_signature = sig]

ChunkNext ==
    \/ \E i \in 1..MaxChunks, ok \in BOOLEAN : upload_chunk_fixed(i, ok)
    \/ CollectChunks
    \/ \E failing \in 0..Len(ApiOrder) :
          FollowTransfer([i \in 1..Len(ApiOrder) |-> i # failing])
    \/ \E regen \in SignerOutputs, resp \in PublishResponses :
          PublishPass(regen, resp)

SpecChunks == ChunkInit /\ [][ChunkNext]_vars

(***************************************************************************)
(* Discovery with key rotation: check_new_video and                        *)
(* fetch_youtube_activities over two polled channels that share the        *)
(* process's FAIL_KEY_LIST and apikey_error_channels.                       *)
(***************************************************************************)

PolledChannels == {"UC1", "UC2"}

ApiKeys == {"k1", "k2"}

\* fetch_youtube_activities: max_retries, as check_new_video passes it
make_request_max_retries == 3

MaxAge == 2         \* the age of the latest item, in units of is_new_second

\* The discovery settings of the channel configurations explored.
DiscoveryConfigs ==
    { [pipeline_steps |-> [isDict |-> FALSE, map |-> <<>>],
       upload_method |-> "api", detect_video |-> "api",
       youtube_api_key |-> ks, api_scan_method |-> m,
       youtube_api_type |-> t, is_new_second |-> 1] :
         ks \in {<<"k1", "k2">>, <<"k2", "k1">>},
         m \in {"sequence", "parallel"},
         t \in {"playlistItems", "activities"} }

\* What the query returns to a working key: no item, an item of some
\* activity type published `age` ago, or JSON check_new_video cannot read.
Responses ==
    {[shape |-> "empty", type |-> "none", age |-> 0],
     [shape |-> "malformed", type |-> "none", age |-> 0]}
    \cup [shape : {"item"}, type : {"upload", "like"}, age : 0..MaxAge]

\* A plausible slip: the activity's type is not looked at.
fetch_outcome_any_type(c, resp) ==
    IF resp.shape = "malformed" THEN "error"
    ELSE IF resp.shape = "empty" THEN "empty"
    ELSE IF resp.age > ALL_CONFIGS[c].is_new_second THEN "old"
    ELSE "fresh"

\* check_new_video, lines 1460-1483 and 1515: what it makes of the response.
fetch_outcome(c, resp) ==
    IF resp.shape = "malformed" THEN "error"
    ELSE IF resp.shape = "empty" THEN "empty"
    ELSE IF ALL_CONFIGS[c].youtube_api_type # "playlistItems" /\ resp.type # "upload"
    THEN "not_upload"
    ELSE IF resp.age > ALL_CONFIGS[c].is_new_second THEN "old"
    ELSE "fresh"

\* A check_new_video call: where it stands, the key it is at, the failed
\* requests and the backoff waits make_request made with it, the futures of
\* parallel mode, the response, and what the last call returned (found: the
\* video id, 0 for None; skipped: it returned at line 1448; raised: it
\* ended in the except clause of line 1515).
IdleScan ==
    [pc |-> "idle", idx |-> 0, tries |-> 0, waits |-> 0, par |-> <<>>,
     resp |-> [shape |-> "empty", type |-> "none", age |-> 0],
     found |-> 0, skipped |-> FALSE, raised |-> FALSE]

\* A plausible slip: the call does not look at apikey_error_channels.
suspended_never(c) == FALSE

\* `if channel in apikey_error_channels` (line 1447)
suspended(c) == c \in apikey_error_channels

\* The except clause of check_new_video (lines 1515-1519): the channel is
\* suspended and the suspension notified.
SuspendChannel(c) ==
    /\ apikey_error_channels' = check_new_video_suspends(c, "error")
    /\ suspendNotes' = [suspendNotes EXCEPT ![c] = IF @ < 2 THEN @ + 1 ELSE @]

\* check_new_video is called for c (lines 1447-1459): by the scheduler's
\* thread, one job at a time, or by the channel's worker in the desktop UI.
CheckBegin(c) ==
    /\ scan[c].pc = "idle"
    /\ host = "daemon" => \A d \in PolledChannels : scan[d].pc = "idle"
    /\ scan' = [scan EXCEPT ![c] =
          IF suspended(c) THEN [IdleScan EXCEPT !.skipped = TRUE]
          ELSE IF ALL_CONFIGS[c].api_scan_method = "parallel"
          THEN [IdleScan EXCEPT !.idx = 1, !.pc = "parallel",
                   !.par = [i \in 1..Len(ALL_CONFIGS[c].youtube_api_key) |->
                               [tries |-> 0, out |-> "run"]]]
          ELSE [IdleScan EXCEPT !.idx = 1, !.pc = "key"]]
    /\ UNCHANGED <<normVars, mainVars, chunkVars, pureVars, FAIL_KEY_LIST,
                   lateRequests, keyAdds, suspendNotes>>

\* The key the sequence-mode loop of c is at.
KeyAt(c) == ALL_CONFIGS[c].youtube_api_key[scan[c].idx]

\* A plausible slip: the loop does not look at FAIL_KEY_LIST.
key_untried_always(c) == TRUE

\* `if api_key.strip() not in FAIL_KEY_LIST` (line 1425)
key_untried(c) == KeyAt(c) \notin FAIL_KEY_LIST

\* fetch_youtube_activities, lines 1424-1425 and 1440: the loop takes the
\* next key and tests it against FAIL_KEY_LIST; with no key left it raises.
FetchNextKey(c) ==
    /\ scan[c].pc = "key"
    /\ IF scan[c].idx > Len(ALL_CONFIGS[c].youtube_api_key)
       THEN /\ scan' = [scan EXCEPT ![c] = [IdleScan EXCEPT !.raised = TRUE]]
            /\ SuspendChannel(c)
       ELSE /\ scan' = [scan EXCEPT ![c] =
                  IF key_untried(c)
                  THEN [@ EXCEPT !.pc = "request", !.tries = 0, !.waits = 0]
                  ELSE [@ EXCEPT !.idx = @ + 1]]
            /\ UNCHANGED <<apikey_error_channels, suspendNotes>>
    /\ UNCHANGED <<normVars, host, ALL_CONFIGS, last_videoid_file, channel_events,
                   is_rendered, processed_videos, latest, run, worker, intake,
                   announced, files, chunkVars, pureVars, FAIL_KEY_LIST, lateRequests, keyAdds>>

\* A plausible slip: the retry test is `retry_count < max_retries`.
request_outcome_one_more(retry_count, ok) ==
    IF ok THEN "ok"
    ELSE IF retry_count < make_request_max_retries THEN "retry"
    ELSE "error"

\* make_request (lines 1391-1400) after its GET at depth retry_count: the
\* JSON is returned, or the call sleeps and calls itself again, or the
\* error is returned.
request_outcome(retry_count, ok) ==
    IF ok THEN "ok"
    ELSE IF retry_count < make_request_max_retries - 1 THEN "retry"
    ELSE "error"

\* make_request with the key the loop is at: one GET; a failed one is
\* repeated after the backoff until max_retries are made, then the key is
\* added to FAIL_KEY_LIST (lines 1429-1438) and the loop goes on.
make_request(c, ok, resp) ==
    /\ scan[c].pc = "request"
    /\ lateRequests' = IF KeyAt(c) \in FAIL_KEY_LIST
                       THEN lateRequests \cup {KeyAt(c)} ELSE lateRequests
    /\ LET o == request_outcome(scan[c].tries, ok)
       IN  IF o = "ok"
           THEN /\ scan' = [scan EXCEPT ![c].pc = "respond", ![c].resp = resp]
                /\ UNCHANGED <<FAIL_KEY_LIST, keyAdds>>
           ELSE IF o = "retry"
           THEN /\ scan' = [scan EXCEPT ![c].tries = @ + 1, ![c].waits = @ + 1]
                /\ UNCHANGED <<FAIL_KEY_LIST, keyAdds>>
           ELSE /\ FAIL_KEY_LIST' = FAIL_KEY_LIST \cup {KeyAt(c)}
                /\ keyAdds' = [keyAdds EXCEPT ![KeyAt(c)] =
                                  IF @ < 2 THEN @ + 1 ELSE @]
                /\ scan' = [scan EXCEPT ![c].pc = "key", ![c].idx = @ + 1]
    /\ UNCHANGED <<normVars, mainVars, chunkVars, pureVars, suspendNotes>>

\* Lines 1404-1408: the pool's thread of the i-th key runs make_request;
\* FAIL_KEY_LIST is neither looked at nor written.
ParallelRequest(c, i, ok) ==
    /\ scan[c].pc = "parallel"
    /\ i \in DOMAIN scan[c].par
    /\ scan[c].par[i].out = "run"
    /\ LET o == request_outcome(scan[c].par[i].tries, ok)
       IN  scan' = [scan EXCEPT ![c].par[i] =
              IF o = "retry" THEN [@ EXCEPT !.tries = @ + 1]
              ELSE [@ EXCEPT !.out = o]]
    /\ UNCHANGED <<normVars, mainVars, chunkVars, pureVars, keyVars_but_scan>>

\* A plausible slip: the call gives up at the first future that failed.
all_failed_first_error(par) == \E i \in DOMAIN par : par[i].out = "error"

\* The as_completed loop (lines 1411-1418) has ended without a success:
\* every future holds an error.
all_failed(par) == \A i \in DOMAIN par : par[i].out = "error"

\* Lines 1411-1422: a future that completed with a response ends the call
\* (the futures still running are abandoned); when all have failed the
\* errors are collected and the call raises.
ParallelGather(c, resp) ==
    /\ scan[c].pc = "parallel"
    /\ \/ /\ \E i \in DOMAIN scan[c].par : scan[c].par[i].out = "ok"
          /\ scan' = [scan EXCEPT ![c].pc = "respond", ![c].resp = resp,
                                  ![c].par = <<>>]
          /\ UNCHANGED <<apikey_error_channels, suspendNotes>>
       \/ /\ all_failed(scan[c].par)
          /\ resp = IdleScan.resp
          /\ scan' = [scan EXCEPT ![c] = [IdleScan EXCEPT !.raised = TRUE]]
          /\ SuspendChannel(c)
    /\ UNCHANGED <<normVars, host, ALL_CONFIGS, last_videoid_file, channel_events,
                   is_rendered, processed_videos, latest, run, worker, intake,
                   announced, files, chunkVars, pureVars, FAIL_KEY_LIST, lateRequests,
                   keyAdds>>

\* Lines 1460-1519: the response is judged; a candidate is announced and
\* returned, an exception suspends the channel.
CheckResult(c) ==
    /\ scan[c].pc = "respond"
    /\ LET o == fetch_outcome(c, scan[c].resp)
           video == check_new_video(c, o)
       IN  /\ scan' = [scan EXCEPT ![c] =
                  [IdleScan EXCEPT !.found = video, !.raised = (o = "error")]]
           /\ announced' = IF video # 0 THEN announced \cup {<<c, video, "api">>}
                            ELSE announced
           /\ IF o = "error" THEN SuspendChannel(c)
              ELSE UNCHANGED <<apikey_error_channels, suspendNotes>>
    /\ UNCHANGED <<normVars, host, ALL_CONFIGS, last_videoid_file, channel_events,
                   is_rendered, processed_videos, latest, run, worker, intake,
                   files, chunkVars, pureVars, FAIL_KEY_LIST, lateRequests, keyAdds>>

\* The process polls two channels, each with a latest video and a marker
\* that holds its id or is absent.
KeyInit ==
    /\ NormIdle
    /\ ChunkIdle
    /\ PureIdle
    /\ host \in {"daemon", "gui"}
    /\ ALL_CONFIGS \in [PolledChannels -> DiscoveryConfigs]
    /\ ALL_CONFIGS["UC1"].youtube_api_key = <<"k1", "k2">>
    /\ ALL_CONFIGS["UC1"].youtube_api_type = "activities"
    /\ ALL_CONFIGS["UC2"].youtube_api_key = <<"k2", "k1">>
    /\ ALL_CONFIGS["UC2"].youtube_api_type = "playlistItems"
    /\ ALL_CONFIGS["UC2"].api_scan_method = "sequence"
    /\ last_videoid_file \in [PolledChannels -> {{}, {1}}]
    /\ channel_events = [c \in PolledChannels |-> "absent"]
    /\ is_rendered = [c \in PolledChannels |-> "unset"]
    /\ apikey_error_channels = {}
    /\ processed_videos = {}
    /\ latest = [c \in PolledChannels |-> 1]
    /\ run = [r \in Runs |-> IdleRun]
    /\ worker = [c \in PolledChannels |-> IdleWorker]
    /\ intake = [c \in PolledChannels |-> [v \in VideoIds |-> 0]]
    /\ announced = {}
    /\ files = [v \in VideoIds |-> NoFiles]
    /\ FAIL_KEY_LIST = {}
    /\ scan = [c \in PolledChannels |-> IdleScan]
    /\ lateRequests = {}
    /\ keyAdds = [k \in ApiKeys |-> 0]
    /\ suspendNotes = [c \in PolledChannels |-> 0]

KeyNext ==
    \E c \in PolledChannels :
        \/ CheckBegin(c)
        \/ FetchNextKey(c)
        \/ \E ok \in BOOLEAN, resp \in Responses : make_request(c, ok, resp)
        \/ \E i \in 1..Cardinality(ApiKeys), ok \in BOOLEAN :
              ParallelRequest(c, i, ok)
        \/ \E resp \in Responses : ParallelGather(c, resp)
        \/ CheckResult(c)

SpecKeys == KeyInit /\ [][KeyNext]_vars

(***************************************************************************)
(* The render decision of render_video_ffmpeg, over every duration.        *)
(* Durations are counted in ticks, Tick of them to the second.             *)
(***************************************************************************)

Tick == 10
MaxSeconds == 310

Durations == 1..(MaxSeconds * Tick)

RenderMethods == {"repeat", "slow", "other"}

\* The count without the one added to the quotient.
loop_count_quotient_only(duration) == (60 * Tick) \div duration

\* loops = int(60 // duration) + 1
loop_count(duration) == ((60 * Tick) \div duration) + 1

\* The least whole number that is not below a / b.
Ceil(a, b) == (a + b - 1) \div b

\* The branch on 60 <= duration <= 300 with the boundaries moved out.
render_video_ffmpeg_open_bounds(duration, method) ==
    IF 60 * Tick < duration /\ duration < 300 * Tick
    THEN [strategy |-> "passthrough", t |-> 0, loops |-> 0, result |-> "None"]
    ELSE IF duration <= 30 * Tick
    THEN [strategy |-> "loop", t |-> 60,
          loops |-> loop_count(duration), result |-> "True"]
    ELSE IF 30 * Tick < duration /\ duration < 60 * Tick
    THEN IF method = "repeat"
         THEN [strategy |-> "loop", t |-> 60,
               loops |-> loop_count(duration), result |-> "True"]
         ELSE [strategy |-> "stretch", t |-> 61, loops |-> 0, result |-> "True"]
    ELSE [strategy |-> "trim", t |-> 300, loops |-> 0, result |-> "True"]

\* The strategy the function chooses, the length t it cuts the output to and
\* what it returns when ffmpeg raises nothing.
render_video_ffmpeg(duration, method) ==
    IF 60 * Tick <= duration /\ duration <= 300 * Tick
    THEN [strategy |-> "passthrough", t |-> 0, loops |-> 0, result |-> "None"]
    ELSE IF duration <= 30 * Tick
    THEN [strategy |-> "loop", t |-> 60,
          loops |-> loop_count(duration), result |-> "True"]
    ELSE IF 30 * Tick < duration /\ duration < 60 * Tick
    THEN IF method = "repeat"
         THEN [strategy |-> "loop", t |-> 60,
               loops |-> loop_count(duration), result |-> "True"]
         ELSE [strategy |-> "stretch", t |-> 61, loops |-> 0, result |-> "True"]
    ELSE [strategy |-> "trim", t |-> 300, loops |-> 0, result |-> "True"]

RenderInit ==
    /\ NormIdle
    /\ MainIdle
    /\ ChunkIdle
    /\ KeyIdle
    /\ splitJob = [phase |-> "off"]
    /\ cpw = [pc |-> "off"]
    /\ \E d \in Durations, m \in RenderMethods :
          renderJob = [phase |-> "called", duration |-> d, method |-> m]

RenderDecide ==
    /\ renderJob.phase = "called"
    /\ renderJob' = [phase |-> "done", duration |-> renderJob.duration,
                     method |-> renderJob.method,
                     out |-> render_video_ffmpeg(renderJob.duration,
                                                 renderJob.method)]
    /\ UNCHANGED <<normVars, mainVars, chunkVars, keyVars, splitJob, cpw>>

RenderNext == RenderDecide

SpecRender == RenderInit /\ [][RenderNext]_vars

(***************************************************************************)
(* The split of the file in upload_to_tiktok_optimized: the tier and the   *)
(* chunks, over file sizes around every multiple of a MiB.                 *)
(***************************************************************************)

MaxMiB == 210

MiB == 1024 * 1024

FileSizes ==
    {m * MiB + o : m \in 1..MaxMiB, o \in {0, 1}} \cup
    {m * MiB - 1 : m \in 1..MaxMiB} \cup {0, 1}

\* The tiers with the boundary sizes left in the tier below.
chunk_tier_inclusive(file_size) ==
    IF file_size <= 50 * MiB
    THEN [chunk_size |-> 2 * MiB, max_workers |-> 8]
    ELSE IF file_size <= 200 * MiB
    THEN [chunk_size |-> 5 * MiB, max_workers |-> 6]
    ELSE [chunk_size |-> 10 * MiB, max_workers |-> 4]

chunk_tier(file_size) ==
    IF file_size < 50 * MiB
    THEN [chunk_size |-> 2 * MiB, max_workers |-> 8]
    ELSE IF file_size < 200 * MiB
    THEN [chunk_size |-> 5 * MiB, max_workers |-> 6]
    ELSE [chunk_size |-> 10 * MiB, max_workers |-> 4]

\* The loop that stops at the last full chunk.
RECURSIVE split_chunks_full_only(_, _, _)
split_chunks_full_only(i, file_size, chunk_size) ==
    IF i + chunk_size <= file_size
    THEN <<chunk_size>> \o
         split_chunks_full_only(i + chunk_size, file_size, chunk_size)
    ELSE <<>>

\* The lengths of the slices video_content[i : i + chunk_size] the loop
\* appends from offset i on.
RECURSIVE split_chunks(_, _, _)
split_chunks(i, file_size, chunk_size) ==
    IF i < file_size
    THEN <<Min(chunk_size, file_size - i)>> \o
         split_chunks(i + chunk_size, file_size, chunk_size)
    ELSE <<>>

SplitInit ==
    /\ NormIdle
    /\ MainIdle
    /\ ChunkIdle
    /\ KeyIdle
    /\ renderJob = [phase |-> "off"]
    /\ cpw = [pc |-> "off"]
    /\ \E n \in FileSizes : splitJob = [phase |-> "read", file_size |-> n]

SplitTier ==
    /\ splitJob.phase = "read"
    /\ splitJob' = [phase |-> "tier", file_size |-> splitJob.file_size,
                    tier |-> chunk_tier(splitJob.file_size)]
    /\ UNCHANGED <<normVars, mainVars, chunkVars, keyVars, renderJob, cpw>>

SplitChunks ==
    /\ splitJob.phase = "tier"
    /\ splitJob' = [phase |-> "split", file_size |-> splitJob.file_size,
                    tier |-> splitJob.tier,
                    chunks |-> split_chunks(0, splitJob.file_size,
                                            splitJob.tier.chunk_size)]
    /\ UNCHANGED <<normVars, mainVars, chunkVars, keyVars, renderJob, cpw>>

SplitNext == SplitTier \/ SplitChunks

SpecSplit == SplitInit /\ [][SplitNext]_vars

(***************************************************************************)
(* One ChannelPipelineWorker thread, for every step configuration and with *)
(* or without a video URL; process_video_pipeline and check_new_video are  *)
(* calls that return or raise.                                             *)
(***************************************************************************)

MaxCalls == 3       \* pipeline calls one thread is followed through
MaxChecks == 2      \* check_new_video calls one thread is followed through

\* The pipeline_steps of the channel's configuration: a dict of booleans
\* over any subset of the keys, or nothing.
WorkerStepInputs ==
    {inp \in StepInputs :
        \A k \in DOMAIN inp.map : inp.map[k] \in {"True", "False"}}

\* What a call of process_video_pipeline ends with: its return value, a
\* TypeError, another exception, or SystemExit.
PipelineReturns == {"True", "False", "TypeError", "raise", "exit"}

cpwFrame == <<normVars, mainVars, chunkVars, keyVars, renderJob, splitJob>>

\* The thread has been constructed (lines 38-48) and started.
WorkerInit ==
    /\ NormIdle
    /\ MainIdle
    /\ ChunkIdle
    /\ KeyIdle
    /\ renderJob = [phase |-> "off"]
    /\ splitJob = [phase |-> "off"]
    /\ \E inp \in WorkerStepInputs, url \in BOOLEAN :
          cpw = [pc |-> "prepare", arg |-> inp, video_url |-> url,
                 pipeline_steps |-> default_pipeline_steps,
                 manual_video |-> FALSE, stop |-> FALSE, success |-> FALSE,
                 retried |-> FALSE, calls |-> 0, checks |-> 0,
                 finished |-> "none"]

\* finished.emit(channel_id, ok, message) followed by the return of run()
cpw_finish(message) == [cpw EXCEPT !.pc = "done", !.finished = message]

\* ChannelPipelineWorker.request_stop
request_stop ==
    /\ cpw.pc \notin {"off", "done", "dead"}
    /\ ~cpw.stop
    /\ cpw' = [cpw EXCEPT !.stop = TRUE]
    /\ UNCHANGED cpwFrame

\* run(), lines 55-82: the settings are loaded, the steps normalized, the
\* URL resolved to a video if one was given (resolved: yt-dlp found it).
run_prepare(resolved) ==
    /\ cpw.pc = "prepare"
    /\ resolved \/ cpw.video_url
    /\ cpw' = IF cpw.video_url /\ ~resolved
              THEN [cpw_finish("Failed to resolve video details from URL")
                       EXCEPT !.pipeline_steps = sanitize_pipeline_steps(cpw.arg)]
              ELSE [cpw EXCEPT !.pc = "dispatch",
                       !.pipeline_steps = sanitize_pipeline_steps(cpw.arg),
                       !.manual_video = cpw.video_url]
    /\ UNCHANGED cpwFrame

\* A plausible slip: a worker without scan and without a URL falls through
\* to the scan loop.
run_dispatch_falls_through ==
    /\ cpw.pc = "dispatch"
    /\ cpw' = IF cpw.manual_video THEN [cpw EXCEPT !.pc = "manual"]
              ELSE [cpw EXCEPT !.pc = "scan"]
    /\ UNCHANGED cpwFrame

\* run(), lines 84-91 and 102-114: without scan a video is required; a
\* manual video is processed first; else the scan loop starts.
run_dispatch ==
    /\ cpw.pc = "dispatch"
    /\ cpw' = IF ~cpw.pipeline_steps["scan"] /\ ~cpw.manual_video
              THEN cpw_finish("Video URL required when scan step is disabled")
              ELSE IF cpw.manual_video THEN [cpw EXCEPT !.pc = "manual"]
              ELSE [cpw EXCEPT !.pc = "scan"]
    /\ UNCHANGED cpwFrame

\* _process_video, lines 165-185: nothing is done once stop is requested;
\* else process_video_pipeline is called.
process_video_call ==
    /\ cpw.pc \in {"manual", "found"}
    /\ cpw.calls < MaxCalls
    /\ cpw' = IF cpw.stop
              THEN [cpw EXCEPT !.success = FALSE,
                       !.pc = IF cpw.pc = "manual" THEN "manual_ret" ELSE "wait"]
              ELSE [cpw EXCEPT !.calls = @ + 1, !.retried = FALSE,
                       !.pc = IF cpw.pc = "manual" THEN "manual_run" ELSE "found_run"]
    /\ UNCHANGED cpwFrame

\* _process_video, lines 175-191: the pipeline returns or raises; after a
\* TypeError it is called again without the optional arguments; another
\* exception ends run() in its handler (lines 152-157), SystemExit ends the
\* thread.
process_video_return(ret) ==
    /\ cpw.pc \in {"manual_run", "found_run"}
    /\ cpw' = IF ret = "TypeError" /\ ~cpw.retried
              THEN [cpw EXCEPT !.calls = @ + 1, !.retried = TRUE]
              ELSE IF ret \in {"TypeError", "raise"} THEN cpw_finish("Error")
              ELSE IF ret = "exit" THEN [cpw EXCEPT !.pc = "dead"]
              ELSE [cpw EXCEPT !.success = (ret = "True"),
                       !.pc = IF cpw.pc = "manual_run" THEN "manual_ret" ELSE "wait"]
    /\ UNCHANGED cpwFrame

\* run(), lines 92-109: after the manual video.
run_after_manual ==
    /\ cpw.pc = "manual_ret"
    /\ cpw' = IF ~cpw.pipeline_steps["scan"]
              THEN IF cpw.stop THEN cpw_finish("Pipeline cancelled")
                   ELSE IF cpw.success
                   THEN cpw_finish("Pipeline completed successfully")
                   ELSE cpw_finish("Pipeline finished with errors")
              ELSE IF cpw.stop THEN cpw_finish("Stopped by user")
              ELSE IF ~cpw.success THEN cpw_finish("Pipeline finished with errors")
              ELSE [cpw EXCEPT !.pc = "scan"]
    /\ UNCHANGED cpwFrame

\* run(), lines 116-142 and 152-155: the loop's test and check_new_video
\* (found: it returned a video; raised: it raised).
run_scan(found, raised) ==
    /\ cpw.pc = "scan"
    /\ ~(found /\ raised)
    /\ cpw.stop \/ cpw.checks < MaxChecks
    /\ cpw' = IF cpw.stop THEN cpw_finish("Stopped by user")
              ELSE [cpw EXCEPT !.checks = @ + 1,
                       !.pc = IF found THEN "found" ELSE "wait"]
    /\ UNCHANGED cpwFrame

\* _wait_with_stop (lines 144-150, 159-163) and the loop's exits.
run_wait ==
    /\ cpw.pc = "wait"
    /\ cpw' = IF cpw.stop THEN cpw_finish("Stopped by user")
              ELSE [cpw EXCEPT !.pc = "scan"]
    /\ UNCHANGED cpwFrame

WorkerNext ==
    \/ request_stop
    \/ \E resolved \in BOOLEAN : run_prepare(resolved)
    \/ run_dispatch
    \/ process_video_call
    \/ \E ret \in PipelineReturns : process_video_return(ret)
    \/ run_after_manual
    \/ \E found, raised \in BOOLEAN : run_scan(found, raised)
    \/ run_wait

SpecWorker == WorkerInit /\ [][WorkerNext]_vars

(***************************************************************************)
(* The properties.                                                         *)
(***************************************************************************)

StepInvariant(d) ==
    /\ d["upload"] => (d["render"] /\ d["download"])
    /\ d["render"] => d["download"]
    /\ ~d["render"] => ~d["upload"]
    /\ ~d["download"] => (~d["render"] /\ ~d["upload"])

\* C1: for every argument (any subset of the keys present, any values, or no
\* dict at all) the step set returned by either copy of
\* _sanitize_pipeline_steps satisfies the four dependency invariants.
C1_NormalizedInvariant ==
    nPhase # "input" => StepInvariant(nOut) /\ StepInvariant(nCm)

\* C1 witness: normalization has run on a dict that asks for upload (by
\* default, the key is missing) with download switched off.
C1_Witness ==
    /\ nPhase = "once"
    /\ nIn.isDict
    /\ "upload" \notin DOMAIN nIn.map
    /\ "download" \in DOMAIN nIn.map
    /\ ~PyBool(nIn.map["download"])
    /\ nOut["download"]

\* C2: normalizing a normalized step set changes nothing.
C2_Idempotent ==
    nPhase = "twice" => nTwice = nOut

\* C2 witness: the second normalization has run on a result that differs from
\* the merged argument (the first normalization did change something).
C2_Witness ==
    /\ nPhase = "twice"
    /\ nIn.isDict
    /\ DOMAIN nIn.map = StepKeys
    /\ nOut # MergeSteps(nIn)

PipelineRuns(c) == {r \in Runs : run[r].kind = "pipeline" /\ run[r].ch = c}

\* C3: for one channel a discovered video id is admitted to the pipeline at
\* most once, unless a download of it failed in between (intake counts the
\* admissions since the last download failure), also when a push and a poll,
\* or two polls, for the same video come close together.
C3_AtMostOnceIntake ==
    \A c \in Channels, v \in VideoIds : intake[c][v] <= 1

\* C4: when a pipeline run for video v that got past the step test ends, no
\* other thread having worked on the channel meanwhile, the marker is absent
\* if and only if the download failed; after a render failure, an upload
\* failure, a cancellation or a success it holds v's id.
C4_MarkerAfterRun ==
    \A r \in Runs :
        (run[r].pc = "p_finally" /\ run[r].alone) =>
            /\ (last_videoid_file[run[r].ch] = {}) <=> (run[r].result = "download_failed")
            /\ run[r].result # "download_failed"
                  => last_videoid_file[run[r].ch] = {run[r].vid}

C4_Witness ==
    \E r \in Runs :
        /\ run[r].pc = "p_finally" /\ run[r].alone
        /\ run[r].result = "download_failed"
        /\ last_videoid_file[run[r].ch] = {}

\* The run has at least one of download, render, upload enabled.
AnyStage(r) == RunSteps(r)["download"] \/ RunSteps(r)["render"] \/ RunSteps(r)["upload"]

C6_OneRunPerChannel ==
    \A c \in Channels : Cardinality(PipelineRuns(c)) <= 1

ApiPcs == {"a_pre", "a_wait", "a_blocked", "a_requests", "a_finally"}

BrowserPcs == {"b_enter", "b_launch", "b_blocked", "b_upload", "b_finally"}

\* C7: an API attempt has issued a request (the chunk transfers among them)
\* only if its wait on the channel's Event returned true; when the wait
\* timed out the attempt has failed with no request at all.
C7_NoTransferBeforeHandoff ==
    \A r \in Runs :
        run[r].pc \in ApiPcs =>
            /\ run[r].reqs # <<>> => run[r].waitRes \in {"immediate", "signalled"}
            /\ run[r].waitRes = "timeout" =>
                  /\ run[r].pc = "a_finally"
                  /\ run[r].upres = "False"
                  /\ run[r].reqs = <<>>

C7_Witness ==
    \E r \in Runs : run[r].pc = "a_finally" /\ run[r].waitRes = "timeout"

\* C8: when an upload attempt of either strategy ends, by a return or by an
\* exception, the channel's Event is not set.
C8_ClearedWhenAttemptEnds ==
    [][\A r \in Runs :
          (run[r].pc \in ApiPcs \cup BrowserPcs /\ run'[r].pc \in {"p_after", "m_finally"})
              => channel_events'[run[r].ch] # "set"]_vars

\* C9: the wait on the channel's Event gives a value: true at once when the
\* Event was set before, false after the 80 s, also when the channel has no
\* registry entry; it never ends with an exception.
C9_WaitReturnsValue ==
    \A r \in Runs : run[r].waitRes \in {"none", "immediate", "signalled", "timeout"}

\* C10: the requests of an API attempt are a prefix of auth, apply, transfer,
\* finish, commit, head, publish; every request but the last one succeeded,
\* and an attempt with a failed request has failed.
C10_PhaseOrder ==
    \A r \in Runs :
        LET q == run[r].reqs
        IN  /\ Len(q) <= Len(ApiOrder)
            /\ \A i \in 1..Len(q) :
                  /\ q[i].ph = ApiOrder[i]
                  /\ i < Len(q) => q[i].ok
                  /\ ~q[i].ok => run[r].upres = "False"

C10_Witness ==
    \E r \in Runs :
        /\ run[r].pc = "a_finally"
        /\ Len(run[r].reqs) = 3
        /\ ~run[r].reqs[3].ok
        /\ run[r].upres = "False"

\* C11: when a part of the file has failed all 3 of its attempts, the upload
\* attempt makes no finish, commit or publish request (no request at all
\* after the transfer) and, once ended, has reported failure.
C11_FailedChunkFailsAttempt ==
    \A i \in DOMAIN chunks :
        chunks[i].state = "failed" =>
            /\ chunks[i].tries = upload_chunk_max_retries
            /\ transfer.phase \in {"chunks", "ended"}
            /\ transfer.reqs = <<>>
            /\ transfer.result # "True"
            /\ transfer.phase = "ended" => transfer.result = "False"

\* C11 witness: the attempt has ended with one part failed three times while
\* another part went through on its third try.
C11_Witness ==
    /\ transfer.phase = "ended"
    /\ \E i, j \in DOMAIN chunks :
          /\ chunks[i].state = "failed"
          /\ chunks[j].state = "ok" /\ chunks[j].tries = upload_chunk_max_retries

\* A step of c's check_new_video call that begins it.
Begins(c) == scan[c].pc = "idle" /\ scan'[c] # scan[c]

\* C12: over the sequence-mode discovery cycles of all channels of the
\* process, no request is made with a key that is in FAIL_KEY_LIST, no key
\* leaves FAIL_KEY_LIST, and no key is added to it more than once.
C12_FailedKeyNeverUsed ==
    [][/\ lateRequests' = {}
       /\ FAIL_KEY_LIST \subseteq FAIL_KEY_LIST'
       /\ \A k \in ApiKeys : keyAdds'[k] <= 1]_vars

\* C13: the check_new_video call that follows a call of the channel that
\* failed (every key failed, or the query or its result raised) attempts
\* discovery again: it goes on to fetch.
C13_FailureConfinedToCycle ==
    [][\A c \in PolledChannels :
          (Begins(c) /\ scan[c].raised) => scan'[c].pc \in {"key", "parallel"}]_vars

\* C14: a suspended channel stays suspended; a check_new_video call for it
\* returns None at once, so that no call of it is ever at a request; the
\* suspension was notified exactly once; and a call for a channel that is
\* not suspended goes on to fetch whatever channels are suspended.
C14_SuspendedStaysSilent ==
    [][\A c \in PolledChannels :
          /\ c \in apikey_error_channels' =>
                /\ scan'[c].pc = "idle" /\ scan'[c].found = 0
                /\ suspendNotes'[c] = 1
          /\ c \notin apikey_error_channels' => suspendNotes'[c] = 0
          /\ c \in apikey_error_channels =>
                /\ c \in apikey_error_channels'
                /\ scan'[c] # scan[c] => scan'[c].skipped
          /\ (Begins(c) /\ c \notin apikey_error_channels)
                => scan'[c].pc \in {"key", "parallel"}]_vars

\* C14 witness: in the daemon a call for the suspended UC1 has returned at
\* once, and a later call for UC2 has got a response.
C14_Witness ==
    /\ host = "daemon"
    /\ "UC1" \in apikey_error_channels /\ scan["UC1"].skipped
    /\ suspendNotes["UC1"] = 1
    /\ scan["UC2"].pc = "respond"

\* C15: check_new_video returns a video only when the response holds an
\* item that is an upload (asked of the activities query only), no older
\* than is_new_second, with an id other than the marker's; the video is the
\* latest one; whenever the latest id equals the marker it returns None.
C15_CandidateOnlyWhenNew ==
    [][\A c \in PolledChannels :
          (scan[c].pc = "respond" /\ scan'[c].pc = "idle") =>
              /\ scan'[c].found # 0 =>
                    /\ scan[c].resp.shape = "item"
                    /\ ALL_CONFIGS[c].youtube_api_type # "playlistItems"
                          => scan[c].resp.type = "upload"
                    /\ scan[c].resp.age <= ALL_CONFIGS[c].is_new_second
                    /\ last_videoid_file[c] # {latest[c]}
                    /\ scan'[c].found = latest[c]
              /\ last_videoid_file[c] = {latest[c]} => scan'[c].found = 0]_vars

\* C15 witness: the call for UC1, which uses the activities query, has
\* returned and announced the latest video.
C15_Witness ==
    /\ scan["UC1"].pc = "idle"
    /\ scan["UC1"].found = latest["UC1"]
    /\ <<"UC1", latest["UC1"], "api">> \in announced

\* C16: when the receiver hands handle_new_video a video whose id equals the
\* channel's marker, no pipeline run is started and no "new video"
\* notification is sent.
C16_PushDedupe ==
    [][\A c \in Channels, v \in VideoIds :
          (<<c, v>> \in processed_videos' \ processed_videos
              /\ last_videoid_file[c] = {v})
          => (run' = run /\ intake' = intake /\ announced' = announced)]_vars

\* C16 witness: the video was admitted and announced by the poll alone and
\* its marker is written; the push for it has been handled and has neither
\* announced nor admitted it.
C16_Witness ==
    \E c \in Channels, v \in VideoIds :
        /\ <<c, v>> \in processed_videos
        /\ last_videoid_file[c] = {v}
        /\ announced = {<<c, v, "api">>}
        /\ intake[c][v] = 1

\* How a run ends when one of its stages failed.
StageFailures == {"download_failed", "render_failed", "upload_failed", "raised", "exit"}

\* C17: when a download failure of video v has deleted the marker, a later
\* discovery of v is admitted again: a poll that finds v fresh returns it,
\* and a repeated push for v passes the webhook receiver and the marker
\* check of handle_new_video.
C17_ReintakeAfterDownloadFailure ==
    \A r \in Runs :
        (/\ run[r].pc = "p_finally" /\ run[r].result = "download_failed"
         /\ run[r].vid \in VideoIds /\ last_videoid_file[run[r].ch] = {})
        => /\ (/\ ALL_CONFIGS[run[r].ch].detect_video \in {"api", "both"}
               /\ run[r].ch \notin apikey_error_channels
               /\ latest[run[r].ch] = run[r].vid)
              => check_new_video(run[r].ch, "fresh") = run[r].vid
           /\ ALL_CONFIGS[run[r].ch].detect_video \in {"websub", "both"}
              => /\ webhook_passes(run[r].ch, run[r].vid)
                 /\ handle_new_video_admits(run[r].ch, run[r].vid)

\* C18: a pipeline run that ends because its download, render or upload
\* failed, by a failure value or by a raised error, has sent a failure
\* notification for its video.
C18_StageFailureNotified ==
    \A r \in Runs :
        (run[r].pc = "p_finally" /\ run[r].result \in StageFailures) => run[r].noted

\* C19: when the run a scanning worker made ends with a stage failure (no
\* stop requested), the worker goes on to wait for its next scan.
C19_WorkerSurvivesFailure ==
    [][\A r \in Runs :
          (/\ run[r].owned /\ run[r].pc = "p_finally" /\ run'[r].pc = "idle"
           /\ run[r].result \in StageFailures
           /\ worker[run[r].ch].url = 0 /\ ~worker[run[r].ch].stop)
          => worker'[run[r].ch].pc = "wait"]_vars

\* C20: with the cancellation flag set when the download stage finishes
\* (without failing) the run ends there, and likewise when the render stage
\* finishes; a cancelled run ends with a failure result and never starts
\* the upload.
C20_CancelBetweenStages ==
    [][\A r \in Runs :
          /\ (/\ run[r].pc = "p_download" /\ run'[r].pc # "p_download"
              /\ cancelled(r) /\ run'[r].result # "download_failed")
             => (run'[r].pc = "p_finally" /\ run'[r].result = "cancelled")
          /\ (/\ run[r].pc = "p_render" /\ run'[r].pc # "p_render"
              /\ cancelled(r) /\ run'[r].result \notin {"render_failed", "exit"})
             => (run'[r].pc = "p_finally" /\ run'[r].result = "cancelled")
          /\ run[r].result = "cancelled"
             => /\ run[r].pc = "p_finally" /\ run[r].upres = "none"
                /\ run[r].reqs = <<>>
                /\ run'[r].pc \in {"p_finally", "idle"}]_vars

\* C20 witness: a run with the upload enabled was cancelled after its render
\* stage had re-encoded the video.
C20_Witness ==
    \E r \in Runs :
        /\ run[r].pc = "p_finally" /\ run[r].result = "cancelled"
        /\ run[r].alone /\ RunSteps(r)["upload"]
        /\ is_rendered[run[r].ch] = "True"

\* C23: for every source duration d > 0 the render step chooses exactly one
\* strategy: passthrough when 60 <= d <= 300 seconds, the boundaries
\* included; loop and trim to 60 s when d <= 30; for 30 < d < 60, loop and
\* trim to 60 s under the "repeat" method and a stretch to about 61 s under
\* any other; trim to 300 s when d > 300.
C23_OneRenderStrategy ==
    renderJob.phase = "done" =>
        LET d == renderJob.duration
            m == renderJob.method
            o == renderJob.out
            pass == o.strategy = "passthrough" /\ o.result = "None"
            loop == o.strategy = "loop" /\ o.t = 60 /\ o.loops * d > 60 * Tick
            stretch == o.strategy = "stretch" /\ o.t = 61
            trim == o.strategy = "trim" /\ o.t = 300
        IN  /\ d > 0
            /\ Cardinality({x \in {<<1, pass>>, <<2, loop>>, <<3, stretch>>,
                                    <<4, trim>>} : x[2]}) = 1
            /\ (60 * Tick <= d /\ d <= 300 * Tick) => pass
            /\ d <= 30 * Tick => loop
            /\ (30 * Tick < d /\ d < 60 * Tick /\ m = "repeat") => loop
            /\ (30 * Tick < d /\ d < 60 * Tick /\ m # "repeat") => stretch
            /\ d > 300 * Tick => trim

\* A source of exactly 300 seconds has been passed through.
C23_Witness ==
    /\ renderJob.phase = "done"
    /\ renderJob.duration = 300 * Tick
    /\ renderJob.out.strategy = "passthrough"

\* C24: a file under 50 MiB is sent in 2 MiB chunks by 8 workers, one of at
\* least 50 MiB and under 200 MiB in 5 MiB chunks by 6 workers, one of
\* 200 MiB or more in 10 MiB chunks by 4 workers.
C24_ChunkTiers ==
    splitJob.phase \in {"tier", "split"} =>
        LET n == splitJob.file_size
            t == splitJob.tier
        IN  /\ n < 50 * MiB => (t.chunk_size = 2 * MiB /\ t.max_workers = 8)
            /\ (50 * MiB <= n /\ n < 200 * MiB) =>
                   (t.chunk_size = 5 * MiB /\ t.max_workers = 6)
            /\ n >= 200 * MiB => (t.chunk_size = 10 * MiB /\ t.max_workers = 4)

\* A file of exactly 200 MiB has got the last tier.
C24_Witness ==
    /\ splitJob.phase = "tier"
    /\ splitJob.file_size = 200 * MiB
    /\ splitJob.tier = [chunk_size |-> 10 * MiB, max_workers |-> 4]

RECURSIVE SumOf(_)
SumOf(q) == IF q = <<>> THEN 0 ELSE Head(q) + SumOf(Tail(q))

\* C25: the chunks partition the file: their sizes add up to the file size,
\* there are ceil(size / chunk size) of them, every chunk but the last has
\* the chunk size and none is empty.
C25_ChunksPartitionFile ==
    splitJob.phase = "split" =>
        LET n == splitJob.file_size
            cs == splitJob.tier.chunk_size
            q == splitJob.chunks
        IN  /\ SumOf(q) = n
            /\ Len(q) = (n + cs - 1) \div cs
            /\ \A i \in 1..Len(q) : q[i] > 0 /\ q[i] <= cs
            /\ \A i \in 1..(Len(q) - 1) : q[i] = cs

\* A file of 200 MiB and a byte has been split in 21 chunks, the last of a
\* single byte.
C25_Witness ==
    /\ splitJob.phase = "split"
    /\ splitJob.file_size = 200 * MiB + 1
    /\ Len(splitJob.chunks) = 21
    /\ splitJob.chunks[21] = 1

\* The reference procedure, one rule at a time.
RefSeed(inp) ==
    [k \in StepKeys |->
        IF inp.isDict /\ k \in DOMAIN inp.map THEN PyBool(inp.map[k]) ELSE TRUE]

RefRule1(d) ==
    IF d.upload THEN [scan |-> d.scan, download |-> TRUE, render |-> TRUE,
                      upload |-> d.upload]
    ELSE d

RefRule2(d) ==
    IF d.render /\ ~d.download
    THEN [scan |-> d.scan, download |-> TRUE, render |-> d.render,
          upload |-> d.upload]
    ELSE d

RefRule3(d) ==
    IF ~d.render THEN [scan |-> d.scan, download |-> d.download,
                       render |-> d.render, upload |-> FALSE]
    ELSE d

RefRule4(d) ==
    IF ~d.download THEN [scan |-> d.scan, download |-> d.download,
                         render |-> FALSE, upload |-> FALSE]
    ELSE d

\* C26: both copies of the step normalization return, for every argument,
\* what the reference procedure returns: all four flags start true, the keys
\* present in the argument override them, then rules (1) to (4) are applied
\* in order. A missing key counts as true, an argument that is no map gives
\* all four true, and the scan flag comes back with the truth value given.
C26_EqualsReference ==
    nPhase # "input" =>
        LET ref == RefRule4(RefRule3(RefRule2(RefRule1(RefSeed(nIn)))))
        IN  /\ nOut = ref
            /\ nCm = ref
            /\ ~nIn.isDict => nOut = [k \in StepKeys |-> TRUE]
            /\ nOut["scan"] = (IF nIn.isDict /\ "scan" \in DOMAIN nIn.map
                               THEN PyBool(nIn.map["scan"]) ELSE TRUE)
            /\ \A k \in StepKeys :
                   (nIn.isDict /\ k \notin DOMAIN nIn.map) =>
                       nOut[k] = RefRule4(RefRule3(RefRule2(RefRule1(
                           [RefSeed(nIn) EXCEPT ![k] = TRUE]))))[k]

\* A map that switches the scan off, names neither download nor upload and
\* switches the render off has been normalized: the missing upload counted
\* as true and rule (1) switched the render on again.
C26_Witness ==
    /\ nPhase = "once"
    /\ nIn.isDict
    /\ DOMAIN nIn.map = {"scan", "render"}
    /\ ~PyBool(nIn.map["scan"])
    /\ ~PyBool(nIn.map["render"])
    /\ nOut = [scan |-> FALSE, download |-> TRUE, render |-> TRUE,
               upload |-> TRUE]

\* The call of c goes through its keys one after the other.
Sequential(c) == ALL_CONFIGS[c].api_scan_method # "parallel"

\* C27: in sequential mode the keys are tried in list order and a key found
\* in the failed-set is skipped without a request; the first success ends
\* the rotation: its response is what the call goes on with and no later key
\* is requested; every key before the one the call is at is in the
\* failed-set; the call fails exactly when the list is exhausted.
C27_SequentialRotation ==
    [][\A c \in PolledChannels : (Sequential(c) /\ scan'[c] # scan[c]) =>
        LET s == scan[c]
            t == scan'[c]
            keys == ALL_CONFIGS[c].youtube_api_key
        IN  /\ (s.pc = "key" /\ s.idx <= Len(keys) /\ keys[s.idx] \in FAIL_KEY_LIST)
                   => (t.pc = "key" /\ t.idx = s.idx + 1)
            /\ (s.pc = "key" /\ s.idx <= Len(keys) /\ keys[s.idx] \notin FAIL_KEY_LIST)
                   => (t.pc = "request" /\ t.idx = s.idx)
            /\ (s.pc = "key" /\ s.idx > Len(keys))
                   => (t.pc = "idle" /\ t.raised /\ t.found = 0)
            /\ s.pc = "request"
                   => \/ t.pc = "request" /\ t.idx = s.idx
                      \/ t.pc = "respond" /\ t.idx = s.idx
                      \/ /\ t.pc = "key" /\ t.idx = s.idx + 1
                         /\ keys[s.idx] \in FAIL_KEY_LIST'
            /\ s.pc = "respond" => t.pc = "idle"
            /\ t.pc \in {"key", "request", "respond"}
                   => \A j \in 1..(t.idx - 1) : keys[j] \in FAIL_KEY_LIST'
    ]_vars

\* The second key of a channel's list has answered; the first is in the
\* failed-set and the second is not.
C27_Witness ==
    /\ Sequential("UC2")
    /\ scan["UC2"].pc = "respond"
    /\ scan["UC2"].idx = 2
    /\ "k2" \in FAIL_KEY_LIST
    /\ "k1" \notin FAIL_KEY_LIST

\* C28: with one key in one call at most 3 requests are made: a success ends
\* the retries at once, the 3rd failure in a row reports the key failed with
\* no further request, and a backoff wait is made only between two requests,
\* never after the last one.
C28_BoundedRetries ==
    [][\A c \in PolledChannels :
        /\ \A i \in DOMAIN scan[c].par : scan[c].par[i].tries + 1 <= 3
        /\ (scan[c].pc = "request" /\ scan'[c] # scan[c]) =>
            LET s == scan[c]
                t == scan'[c]
                requests == s.tries + 1
            IN  /\ requests <= 3
                /\ s.waits = requests - 1
                /\ \/ t.pc = "respond" /\ t.waits = s.waits
                   \/ /\ t.pc = "request" /\ t.idx = s.idx
                      /\ requests < 3
                      /\ t.tries = s.tries + 1 /\ t.waits = s.waits + 1
                   \/ /\ t.pc = "key" /\ t.idx = s.idx + 1
                      /\ requests = 3
                      /\ t.waits = s.waits
                      /\ ALL_CONFIGS[c].youtube_api_key[s.idx] \in FAIL_KEY_LIST'
    ]_vars

\* A key has failed three times in a row and the loop has gone on to the
\* next key after two waits.
C28_Witness ==
    /\ scan["UC2"].pc = "key"
    /\ scan["UC2"].idx = 2
    /\ scan["UC2"].waits = 2
    /\ keyAdds["k2"] = 1

\* C29: the failed-set is tested and extended atomically with respect to
\* concurrent discovery calls: a key that fails is added to it, and notified
\* as failed, once.
C29_FailedKeyAddedOnce ==
    \A k \in ApiKeys : keyAdds[k] <= 1

\* C30: in parallel mode every key gets a request of its own, with up to 3
\* attempts; the call goes on with a response only when some key has
\* succeeded, and it fails only when every key has failed, never while one
\* has succeeded or is still being tried.
C30_ParallelOutcome ==
    [][\A c \in PolledChannels :
        LET s == scan[c]
            t == scan'[c]
            keys == ALL_CONFIGS[c].youtube_api_key
        IN  /\ t.pc = "parallel" =>
                   /\ DOMAIN t.par = 1..Len(keys)
                   /\ \A i \in DOMAIN t.par : t.par[i].tries + 1 <= 3
            /\ (s.pc = "parallel" /\ t.pc = "respond") =>
                   \E i \in DOMAIN s.par : s.par[i].out = "ok"
            /\ (s.pc = "parallel" /\ t.pc = "idle") =>
                   /\ t.raised
                   /\ \A i \in 1..Len(keys) :
                          s.par[i].out = "error" /\ s.par[i].tries = 2
    ]_vars

\* The first key has failed for good and the second has answered at its
\* second attempt: the call can only go on with the response.
C30_Witness ==
    /\ ALL_CONFIGS["UC1"].api_scan_method = "parallel"
    /\ scan["UC1"].pc = "parallel"
    /\ scan["UC1"].par[1] = [tries |-> 2, out |-> "error"]
    /\ scan["UC1"].par[2] = [tries |-> 1, out |-> "ok"]

\* The run r of the pipeline ends in this step.
PipelineEnds(r) == run[r].pc = "p_finally" /\ run'[r].pc # "p_finally"

\* C21 as stated: when a pipeline run that reached its stages ends, however
\* it ends, the transcoded file of its video no longer exists, and the run
\* has not deleted the downloaded file.
C21_ArtifactGoneAtEnd ==
    [][\A r \in Runs : PipelineEnds(r) =>
          /\ ~files'[run[r].vid].processed
          /\ files[run[r].vid].download => files'[run[r].vid].download]_vars

\* C21, amended: when a pipeline run that reached its stages ends, however
\* it ends, the transcoded file of its video no longer exists unless its
\* removal raised, which leaves the file and a printed cleanup error; no
\* step of any run deletes a downloaded file.
C21_CleanupAttempted ==
    [][/\ \A r \in Runs : PipelineEnds(r) =>
             LET f == files[run[r].vid]
                 g == files'[run[r].vid]
             IN  /\ g.processed => (f.processed /\ g.cleanup_error)
                 /\ ~g.processed => ~g.cleanup_error
                 /\ run[r].result \in {"ok", "download_failed", "render_failed",
                                       "upload_failed", "cancelled", "raised",
                                       "exit"}
       /\ \A v \in VideoIds : files[v].download => files'[v].download]_vars

\* A render succeeded, and every run has ended: the download is there and
\* the transcoded file is gone.
C21_Witness ==
    /\ \A r \in Runs : ~Active(r)
    /\ \E c \in Channels : is_rendered[c] = "True"
    /\ files[1].download
    /\ ~files[1].processed
    /\ ~files[1].cleanup_error

\* The worker thread runs with normalized steps whose scan flag is false.
ScanDisabled ==
    cpw.pc # "off" /\ ~sanitize_pipeline_steps(cpw.arg)["scan"]

\* run() has ended.
WorkerEnded == cpw.pc \in {"done", "dead"}

\* C22 as stated: a worker whose normalized steps have scan = false never
\* calls check_new_video; given a video URL it has, when it ends, put that
\* video through the pipeline exactly once; given none it ends with the
\* error that a URL is required and has processed nothing.
C22_ManualExactlyOnce ==
    ScanDisabled =>
        /\ cpw.checks = 0
        /\ (WorkerEnded /\ cpw.video_url) => cpw.calls = 1
        /\ ~cpw.video_url => cpw.calls = 0
        /\ (WorkerEnded /\ ~cpw.video_url) =>
               cpw.finished = "Video URL required when scan step is disabled"

\* C22, amended: a worker whose normalized steps have scan = false never
\* calls check_new_video and never enters the scan loop; given a video URL
\* it calls the pipeline for that video at most once, and a second time only
\* after a TypeError of the first call; it has called it exactly once when
\* it ends after the URL was resolved, no stop was requested and no
\* TypeError was raised, and not at all only when the URL could not be
\* resolved or a stop was requested first; given no URL it ends with the
\* error that a URL is required and has processed nothing.
C22_ManualAtMostOnce ==
    ScanDisabled =>
        /\ cpw.checks = 0
        /\ cpw.pc \notin {"scan", "found", "found_run", "wait"}
        /\ cpw.calls <= (IF cpw.retried THEN 2 ELSE 1)
        /\ (WorkerEnded /\ cpw.video_url /\ ~cpw.stop /\ ~cpw.retried
              /\ cpw.finished # "Failed to resolve video details from URL")
               => cpw.calls = 1
        /\ (WorkerEnded /\ cpw.video_url /\ cpw.calls = 0) =>
               \/ cpw.finished = "Failed to resolve video details from URL"
               \/ cpw.finished = "Pipeline cancelled" /\ cpw.stop
        /\ ~cpw.video_url => cpw.calls = 0
        /\ (WorkerEnded /\ ~cpw.video_url) =>
               cpw.finished = "Video URL required when scan step is disabled"

\* A worker without scan has resolved its URL, put the video through the
\* pipeline once and finished with success, without a discovery call.
C22_Witness ==
    /\ ScanDisabled
    /\ cpw.video_url
    /\ cpw.pc = "done"
    /\ cpw.finished = "Pipeline completed successfully"
    /\ cpw.calls = 1
    /\ cpw.checks = 0

\* C31: each chunk is attempted at most 3 times, whatever happens to the
\* others: it stops at its first success; each failed attempt but the last
\* is followed by a wait of min(2^attempt, 10) seconds before the next;
\* after the 3rd failure the chunk has failed for good and gets no request.
C31_ChunkRetries ==
    [][\A i \in DOMAIN chunks :
          LET c == chunks[i]
              d == chunks'[i]
          IN  /\ d.tries <= 3
              /\ c.state # "queued" => d = c
              /\ d.tries \in {c.tries, c.tries + 1}
              /\ d.state = "ok" => Len(d.waits) = d.tries - 1
              /\ d.state = "queued" => Len(d.waits) = d.tries
              /\ d.state = "failed" => (d.tries = 3 /\ Len(d.waits) = 2)
              /\ \A k \in 1..Len(d.waits) :
                     d.waits[k] = (IF 2 ^ (k - 1) < 10 THEN 2 ^ (k - 1) ELSE 10)
    ]_vars

\* One chunk has gone through at its 3rd attempt, after waits of 1 and 2
\* seconds, while another has failed for good.
C31_Witness ==
    \E i, j \in DOMAIN chunks :
        /\ chunks[i] = [tries |-> 3, state |-> "ok", waits |-> <<1, 2>>]
        /\ chunks[j] = [tries |-> 3, state |-> "failed", waits |-> <<1, 2>>]

\* C32: once a chunk has exhausted its retries no transfer request is made
\* for any other chunk.
C32_NoRequestAfterExhaustion ==
    [][(\E j \in DOMAIN chunks : chunks[j].state = "failed") =>
           \A i \in DOMAIN chunks : chunks'[i].tries = chunks[i].tries]_vars

\* C33: the body of the finish request lists one partNumber:crc32 entry per
\* chunk, numbered 1..N in file order, each checksum being that of the
\* chunk transferred under that part number, and every chunk was
\* transferred under the upload id the finish request names.
C33_FinishListsEveryChunk ==
    (transfer.phase = "ended" /\ transfer.reqs # <<>>) =>
        LET N == Len(transfer.data)
            body == transfer.finish.data
        IN  /\ transfer.reqs[1].ph = "finish"
            /\ Len(body) = N
            /\ Len(chunks) = N
            /\ \A i \in 1..N :
                  /\ body[i] = <<i, crc32(transfer.data[i])>>
                  /\ chunks[i].state = "ok"
                  /\ \E p \in 1..N :
                        /\ transfer.parts[p].partNumber = i
                        /\ transfer.parts[p].chunk = transfer.data[i]
                        /\ transfer.parts[p].crc = body[i][2]
                        /\ transfer.parts[p].uploadID = transfer.finish.uploadID
                  /\ \A p, q \in 1..N :
                        transfer.parts[p].partNumber = transfer.parts[q].partNumber
                            => p = q

\* The finish request of a file of three chunks, two of them alike, has
\* been made after the second chunk needed a second attempt.
C33_Witness ==
    /\ transfer.phase = "ended"
    /\ transfer.reqs # <<>>
    /\ transfer.data = <<"A", "B", "A">>
    /\ chunks[2].tries = 2
    /\ transfer.finish.data =
          <<<<1, crc32("A")>>, <<2, crc32("B")>>, <<3, crc32("A")>>>>

\* The publish requests an attempt has sent.
PublishRequests == {i \in 1..Len(transfer.reqs) : transfer.reqs[i].ph = "publish"}

\* The attempt got as far as the publish loop: the HEAD request succeeded.
ReachedPublishLoop ==
    /\ Len(transfer.reqs) >= 3
    /\ transfer.reqs[3].ph = "head" /\ transfer.reqs[3].ok

\* C34: an attempt that reached the publish loop with a signature that is
\* missing or invalid (nothing, no JSON, JSON lacking the fields) has asked
\* the helper again exactly once when it ends, and every publish request it
\* sent carried fields parsed from the helper's output.
C34_InvalidSignatureRegenerated ==
    (transfer.phase = "ended" /\ ReachedPublishLoop) =>
       /\ transfer.first_signature # "good" => transfer.regens = 1
       /\ \A i \in 1..Len(transfer.signed) : transfer.signed[i] = "good"

\* C35: an attempt sends at most one publish request; it ends True only
\* after a publish request answered with status_code 0, and a publish
\* request answered otherwise ends it False at once.
C35_OnePublish ==
    /\ Cardinality(PublishRequests) <= 1
    /\ transfer.result = "True" =>
          \E i \in PublishRequests : transfer.reqs[i].ok
    /\ \A i \in PublishRequests :
          ~transfer.reqs[i].ok =>
             transfer.phase = "ended" /\ transfer.result = "False"

\* An attempt whose one publish request was answered with a failure has
\* ended False.
C35_Witness ==
    /\ transfer.phase = "ended" /\ transfer.result = "False"
    /\ \E i \in PublishRequests : ~transfer.reqs[i].ok
    /\ transfer.regens = 1

\* The render step chose to loop the source and trim.
Looped == renderJob.phase = "done" /\ renderJob.out.strategy = "loop"

C37_UploadsOwnRenderResult ==
    \A r \in Runs :
        (run[r].kind = "pipeline" /\ run[r].upFile # "none") =>
            (run[r].upFile = "processed" <=> run[r].rendered)

\* check_new_video is being executed for c.
Checking(c) == scan[c].pc # "idle"

\* C38: in the daemon a channel's check that is in progress, however long its
\* key retries and back-off waits take, does not keep another channel's due
\* check from starting.
C38_CheckNeverDelaysAnother ==
    host = "daemon" =>
        \A c \in PolledChannels, d \in PolledChannels :
            (c # d /\ Checking(c) /\ ~Checking(d)) => ENABLED CheckBegin(d)

\* C39: a worker thread that has ended has emitted finished, and emits it
\* once only; with a stop requested, the wait between scans ends the thread
\* at once instead of going round the loop again, and a video whose
\* processing has not begun is not put through the pipeline.
C39_FinishedOnceAndStopHonoured ==
    [][/\ WorkerEnded' => cpw'.finished # "none"
       /\ cpw.finished # "none" => cpw'.finished = cpw.finished
       /\ (cpw.stop /\ cpw.pc = "wait") =>
             (cpw'.pc = "done" /\ cpw'.finished = "Stopped by user")
       /\ (cpw.stop /\ cpw.pc \in {"manual", "found"}) =>
             cpw'.calls = cpw.calls]_vars

\* The attempt of run r has had its Event set and has not yet waited on it.
BeforeWait(r) == run[r].pc \in {"a_pre", "a_wait", "b_enter", "b_launch"}

\* C40: while an attempt stands between the setting of its channel's Event
\* and its wait, no step of another attempt clears the Event or removes it
\* from the registry, and no attempt's wait ends by the timeout.
C40_SignalSurvivesOtherCleanup ==
    [][\A r \in Runs :
          /\ (BeforeWait(r) /\ run'[r] = run[r]
                 /\ channel_events[run[r].ch] = "set") =>
                channel_events'[run[r].ch] = "set"
          /\ run'[r].waitRes # "timeout"]_vars

====
